---- MODULE Spec2Model ----
(***************************************************************************)
(* Model of src/app.py: the Dhan webhook server that opens, closes and     *)
(* rolls over a synthetic long (long CALL + short PUT) on NIFTY.           *)
(*                                                                         *)
(* Prices are whole points, times are minutes of the day (UTC), dates are  *)
(* day numbers.  A Python None is a record of the same shape whose         *)
(* "present" field is FALSE (or, for strings, the string "None").          *)
(* A Python dict is a record; dict.get(k, d) is Get(r, k, d).              *)
(*                                                                         *)
(* Left out: the payload of the answers (resp, book), the choice of the    *)
(* ATM strike (one strike per expiry), the latency test, the missing       *)
(* DHAN_CLIENT_ID, the length of sleeps.  A failed get_positions is the    *)
(* empty set of positions.                                                 *)
(***************************************************************************)
EXTENDS Integers, Sequences, FiniteSets, TLC

\* ---------------------------------------------------------------- bounds

\* Requests the server handles in one run of the model.
MaxRequests == 2
\* Status polls that fit in one wait_for_fill window of the model.
MaxPolls == 2
\* Last UTC calendar day a request can arrive on (days are 0..MaxDay).
MaxDay == 1

\* ------------------------------------------------------- program constants

MAX_SPREAD_POINTS == 15
MIN_QTY_MULTIPLIER == 1
LIVE == TRUE
MARGIN_CHECK_ENABLED == FALSE
\* timedelta(hours=5, minutes=30), in minutes
IST_OFFSET == 330
\* dtime(12, 30), in minutes of the day
ROLLOVER_CUTOFF == 750
\* datetime.time() is the time of day: minutes wrap at 24 * 60
MINUTES_PER_DAY == 1440
\* seconds
ORDER_FILL_MAX_WAIT == 15
ORDER_FILL_POLL_INTERVAL == 1
\* the timeout of GET /orders/{id}
GET_ORDER_TIMEOUT == 3

\* ---------------------------------------------------------------- helpers

\* dict.get(k, d)
Get(r, k, d) == IF k \in DOMAIN r THEN r[k] ELSE d

Threads == {"t1", "t2"}
\* Monthly expiries of the master CSV, as day numbers, in the order
\* sorted(meta.keys()) gives them.
Expiries == <<1, 2>>

\* One side of the top of book; None is NoQuote.
NoQuote == [present |-> FALSE, price |-> 0, qty |-> 0]
Quote(p, q) == [present |-> TRUE, price |-> p, qty |-> q]

\* ------------------------------------------------------ check_liquidity

\* A check_liquidity that takes any quote that is there, whatever its price.
LiquidityCheckAnyPrice(book, qty, minQtyMultiplier, maxSpreadPoints) ==
    LET bid == book.bid
        ask == book.ask
        spread == ask.price - bid.price
        ok_qty == (bid.qty >= qty * minQtyMultiplier)
                  /\ (ask.qty >= qty * minQtyMultiplier)
        ok_spread == spread <= maxSpreadPoints
    IN  IF ~bid.present \/ ~ask.present
        THEN [ok |-> FALSE, info |-> [reason |-> "missing_bid_or_ask"]]
        ELSE [ok |-> ok_qty /\ ok_spread,
              info |-> [bid_price |-> bid.price, ask_price |-> ask.price,
                        bid_qty |-> bid.qty, ask_qty |-> ask.qty,
                        spread |-> spread,
                        ok_qty |-> ok_qty, ok_spread |-> ok_spread]]

\* A check_liquidity that looks at the quantity on the bid only.
LiquidityCheckBidQtyOnly(book, qty, minQtyMultiplier, maxSpreadPoints) ==
    LET bid == book.bid
        ask == book.ask
        spread == ask.price - bid.price
        ok_qty == bid.qty >= qty * minQtyMultiplier
        ok_spread == spread <= maxSpreadPoints
    IN  IF ~bid.present \/ ~ask.present
        THEN [ok |-> FALSE, info |-> [reason |-> "missing_bid_or_ask"]]
        ELSE IF bid.price <= 0 \/ ask.price <= 0
        THEN [ok |-> FALSE,
              info |-> [reason |-> "invalid_bid_or_ask",
                        bid_price |-> bid.price, ask_price |-> ask.price]]
        ELSE [ok |-> ok_qty /\ ok_spread,
              info |-> [bid_price |-> bid.price, ask_price |-> ask.price,
                        bid_qty |-> bid.qty, ask_qty |-> ask.qty,
                        spread |-> spread,
                        ok_qty |-> ok_qty, ok_spread |-> ok_spread]]

\* check_liquidity with the two thresholds as parameters.  Prices are whole
\* points.
LiquidityCheck(book, qty, minQtyMultiplier, maxSpreadPoints) ==
    LET bid == book.bid
        ask == book.ask
        bid_price == bid.price
        bid_qty == bid.qty
        ask_price == ask.price
        ask_qty == ask.qty
        spread == ask_price - bid_price
        ok_qty == (bid_qty >= qty * minQtyMultiplier)
                  /\ (ask_qty >= qty * minQtyMultiplier)
        ok_spread == spread <= maxSpreadPoints
    IN  IF ~bid.present \/ ~ask.present
        THEN [ok |-> FALSE, info |-> [reason |-> "missing_bid_or_ask"]]
        ELSE IF bid_price <= 0 \/ ask_price <= 0
        THEN [ok |-> FALSE,
              info |-> [reason |-> "invalid_bid_or_ask",
                        bid_price |-> bid_price, ask_price |-> ask_price]]
        ELSE [ok |-> ok_qty /\ ok_spread,
              info |-> [bid_price |-> bid_price, ask_price |-> ask_price,
                        bid_qty |-> bid_qty, ask_qty |-> ask_qty,
                        spread |-> spread,
                        ok_qty |-> ok_qty, ok_spread |-> ok_spread]]

check_liquidity(book, qty) ==
    LiquidityCheck(book, qty, MIN_QTY_MULTIPLIER, MAX_SPREAD_POINTS)

\* ---------------------------------------------------------- check_margin

\* The answer of POST /margincalculator: kind is "ok" (HTTP 200, parsed),
\* "http_error" (another status), "exception" (the request raised: network
\* failure, timeout) or "unparseable" (HTTP 200 with a body that is not JSON
\* or whose amounts are not numbers).
MarginReply(kind, total, avail, insuff) ==
    [kind |-> kind, totalMargin |-> total, availableBalance |-> avail,
     insufficientBalance |-> insuff]
NoMarginReply == MarginReply("none", 0, 0, 0)

\* A margin check that looks at the balance only.
MarginCheckBalanceOnly(enabled, reply) ==
    IF ~enabled THEN [ok |-> TRUE, info |-> "skipped"]
    ELSE IF reply.kind = "http_error" THEN [ok |-> FALSE, info |-> "http_error"]
    ELSE IF reply.kind \in {"exception", "unparseable"}
    THEN [ok |-> TRUE, info |-> "error"]
    ELSE [ok |-> reply.availableBalance >= reply.totalMargin, info |-> "reply"]

\* A margin check that refuses the order when the calculator cannot be asked.
MarginCheckFailsClosed(enabled, reply) ==
    IF ~enabled THEN [ok |-> TRUE, info |-> "skipped"]
    ELSE IF reply.kind = "http_error" THEN [ok |-> FALSE, info |-> "http_error"]
    ELSE IF reply.kind \in {"exception", "unparseable"}
    THEN [ok |-> FALSE, info |-> "error"]
    ELSE [ok |-> (reply.availableBalance >= reply.totalMargin)
                 /\ (reply.insufficientBalance <= 0),
          info |-> "reply"]

MarginCheck(enabled, reply) ==
    IF ~enabled THEN [ok |-> TRUE, info |-> "skipped"]
    ELSE IF reply.kind = "http_error" THEN [ok |-> FALSE, info |-> "http_error"]
    ELSE IF reply.kind \in {"exception", "unparseable"}
    THEN [ok |-> TRUE, info |-> "error"]
    ELSE [ok |-> (reply.availableBalance >= reply.totalMargin)
                 /\ (reply.insufficientBalance <= 0),
          info |-> "reply"]

check_margin(reply) == MarginCheck(MARGIN_CHECK_ENABLED, reply)

\* ---------------------------------------------------------- wait_for_fill

\* One answer of get_order; None (a failed query) is NoStatus.
NoStatus == [present |-> FALSE, orderStatus |-> "None", filledQty |-> 0, quantity |-> 0]
Status(s, f, q) == [present |-> TRUE, orderStatus |-> s, filledQty |-> f, quantity |-> q]

TerminalStatuses == {"TRADED", "PART_TRADED", "REJECTED", "CANCELLED", "EXPIRED"}

\* line 852: the order counts as filled
FillDecision(st) == st.orderStatus = "TRADED" /\ st.filledQty >= st.quantity

RECURSIVE PollLoop(_, _)
\* The while loop of wait_for_fill over the answers the window has room for.
PollLoop(polls, last_status) ==
    IF polls = <<>> THEN [filled |-> FALSE, st |-> last_status]
    ELSE LET st == Head(polls)
         IN  IF ~st.present THEN PollLoop(Tail(polls), last_status)
             ELSE IF st.orderStatus \in TerminalStatuses
             THEN [filled |-> FillDecision(st), st |-> st]
             ELSE PollLoop(Tail(polls), st)

wait_for_fill(order_id, polls) ==
    IF order_id = "PAPER"
    THEN [filled |-> TRUE, st |-> Status("PAPER", 0, 0)]
    ELSE PollLoop(polls, NoStatus)

\* place_order_with_checks, lines 940-946: what the result says of the fill.
fill_outcome(ensure_fill, order_id, polls) ==
    IF ensure_fill /\ order_id # "None"
    THEN [filled_completely |-> wait_for_fill(order_id, polls).filled,
          final_status |-> wait_for_fill(order_id, polls).st]
    ELSE [filled_completely |-> ~ensure_fill, final_status |-> NoStatus]

\* ------------------------------------------------------------ _post_order

\* What POST /orders does: requests.post raises (timeout, connection error),
\* or the broker answers with a status code and, possibly, an order id
\* (order_id "None": the answer holds no orderId).
PostReply(raises, status_code, order_id) ==
    [raises |-> raises, status_code |-> status_code, order_id |-> order_id]
NoPostReply == PostReply(FALSE, 0, "None")

_post_order(side, security_id, qty, reply) ==
    IF ~LIVE THEN PostReply(FALSE, 200, "PAPER") ELSE reply

Order(side, security_id, qty) ==
    [side |-> side, security_id |-> security_id, qty |-> qty]

\* ------------------------------------------------ place_order_with_checks

HardReasons == {"invalid_bid_or_ask", "missing_bid_or_ask"}

\* A retry after any rejection.
RetriesLiquidityAlways(first) == ~first.ok

\* lines 880-892: a second liquidity check is made
RetriesLiquidity(first) ==
    ~first.ok /\ Get(first.info, "reason", "None") \notin HardReasons

\* lines 880-902: the checks made let the order through
LiquidityPasses(checks) == checks[Len(checks)].ok

\* An order that goes out whatever the margin check said.
MarginPassesAlways(margins) == TRUE

\* line 916: the margin check, when made, let the order through
MarginPasses(margins) == \A i \in DOMAIN margins : margins[i].ok

NoResult == [placed |-> FALSE]

\* env: what the outside world answers during this call
\*   book1, book2  the top of book at the first and the second check
\*   margin        the margin calculator's answer
\*   post          the answer to POST /orders
\*   polls         the answers of get_order within the wait window
\* The value: raised (an exception leaves the function), result (the dict
\* returned), posted (the orders calls to POST /orders, in order) and checks
\* (the liquidity checks made, in order) and margins (the margin checks
\* made).  margin_check_enabled is the setting MARGIN_CHECK_ENABLED.
PlaceOrderWithChecks(side, security_id, qty, ensure_fill, env, margin_check_enabled) ==
    LET first == check_liquidity(env.book1, qty)
        checks == IF RetriesLiquidity(first)
                  THEN <<first, check_liquidity(env.book2, qty)>>
                  ELSE <<first>>
        info == checks[Len(checks)].info
        bid_price == Get(info, "bid_price", 0)
        ask_price == Get(info, "ask_price", 0)
        approx_price == IF side = "BUY" THEN ask_price ELSE bid_price
        margins == IF approx_price > 0
                   THEN <<MarginCheck(margin_check_enabled, env.margin)>>
                   ELSE <<>>
        margin == IF margins # <<>> THEN margins[1]
                  ELSE [ok |-> TRUE, info |-> "None"]
        reply == _post_order(side, security_id, qty, env.post)
        order_id == reply.order_id
        fill == fill_outcome(ensure_fill, order_id, env.polls)
    IN  IF ~LiquidityPasses(checks)
        THEN [raised |-> FALSE,
              result |-> [placed |-> FALSE, liquidity_ok |-> FALSE,
                          liquidity_info |-> info],
              posted |-> <<>>, checks |-> checks, margins |-> <<>>]
        ELSE IF ~MarginPasses(margins)
        THEN [raised |-> FALSE,
              result |-> [placed |-> FALSE, liquidity_ok |-> TRUE,
                          liquidity_info |-> info,
                          margin_ok |-> FALSE, margin_info |-> margin.info],
              posted |-> <<>>, checks |-> checks, margins |-> margins]
        ELSE IF reply.raises
        THEN [raised |-> TRUE, result |-> NoResult,
              posted |-> <<Order(side, security_id, qty)>>, checks |-> checks,
              margins |-> margins]
        ELSE [raised |-> FALSE,
              result |-> [placed |-> reply.status_code \in {200, 201},
                          status_code |-> reply.status_code,
                          order_id |-> order_id,
                          liquidity_ok |-> TRUE, liquidity_info |-> info,
                          margin_ok |-> TRUE, margin_info |-> margin.info,
                          filled_completely |-> fill.filled_completely,
                          final_status |-> fill.final_status],
              posted |-> <<Order(side, security_id, qty)>>, checks |-> checks,
              margins |-> margins]

place_order_with_checks(side, security_id, qty, ensure_fill, env) ==
    PlaceOrderWithChecks(side, security_id, qty, ensure_fill, env, MARGIN_CHECK_ENABLED)

\* ------------------------------------------- the outside world, bounded

\* Tops of book the depth feed can give: no bid, a zero price, a spread of
\* 16 points, too little on the ask, and a good book for up to 200.
Books ==
    { [bid |-> NoQuote, ask |-> Quote(110, 200)],
      [bid |-> Quote(0, 200), ask |-> Quote(110, 200)],
      [bid |-> Quote(100, 200), ask |-> Quote(116, 200)],
      [bid |-> Quote(100, 200), ask |-> Quote(110, 10)],
      [bid |-> Quote(100, 200), ask |-> Quote(110, 200)] }

PostReplies ==
    { PostReply(TRUE, 0, "None"), PostReply(FALSE, 200, "OID"),
      PostReply(FALSE, 200, "None"), PostReply(FALSE, 400, "None") }

MarginReplies ==
    IF MARGIN_CHECK_ENABLED
    THEN { MarginReply("ok", 100, 200, 0), MarginReply("ok", 200, 100, 100),
           MarginReply("http_error", 0, 0, 0), MarginReply("exception", 0, 0, 0),
           MarginReply("unparseable", 0, 0, 0) }
    ELSE { NoMarginReply }

\* What get_order can answer, from the postback cache or from GET
\* /orders/{id}: nothing, an order still pending, traded in full, traded in
\* part.
PollAnswers(qty) ==
    { NoStatus, Status("PENDING", 0, qty), Status("TRADED", qty, qty),
      Status("PART_TRADED", 1, qty) }

\* The answers one wait window can hold: get_order is not called again after
\* a terminal status, so nothing follows one.
PollSeqs(qty) ==
    { ps \in UNION { [1..n -> PollAnswers(qty)] : n \in 0..MaxPolls } :
        \A i \in 1..Len(ps) : ps[i].orderStatus \in TerminalStatuses => i = Len(ps) }

\* The worlds one call of place_order_with_checks can meet; an answer the
\* call never asks for is left at its empty value.
SubmitEnvs(qty, ensure_fill) ==
    UNION { UNION { UNION {
        { [book1 |-> b1, book2 |-> b2, margin |-> m, post |-> p, polls |-> ps] :
            ps \in IF ensure_fill /\ ~p.raises /\ p.order_id # "None"
                   THEN PollSeqs(qty) ELSE {<<>>} }
        : p \in IF LiquidityPasses(IF RetriesLiquidity(check_liquidity(b1, qty))
                                   THEN <<check_liquidity(b1, qty), check_liquidity(b2, qty)>>
                                   ELSE <<check_liquidity(b1, qty)>>)
                THEN PostReplies ELSE {NoPostReply} }
        : m \in MarginReplies }
        : <<b1, b2>> \in { <<x, y>> \in Books \X Books :
                             RetriesLiquidity(check_liquidity(x, qty)) \/ y = x } }

\* -------------------------------------------------------------- contracts

\* A datetime.date and its isoformat() string, both for day d.
Date(d) == [kind |-> "date", day |-> d]
IsoString(d) == [kind |-> "str", day |-> d]

NoSid == [opt |-> "None", expiry |-> 0, strike |-> 0]
Sid(opt, expiry, strike) == [opt |-> opt, expiry |-> expiry, strike |-> strike]

\* The shell contract load_nifty_option_metadata builds for expiry e;
\* strike 0 is None.
ShellContract(e) ==
    [name |-> e, expiry |-> Date(e), strike |-> 0,
     call_security_id |-> NoSid, put_security_id |-> NoSid]
NoContract == ShellContract(0)

serialize_contract(contract) ==
    IF contract.expiry.kind = "date"
    THEN [contract EXCEPT !.expiry = IsoString(contract.expiry.day)]
    ELSE contract

\* deserialize_contract that leaves the expiry the string it is
DeserializeKeepsString(contract) == contract

deserialize_contract(contract) ==
    IF contract.expiry.kind = "str"
    THEN [contract EXCEPT !.expiry = Date(contract.expiry.day)]
    ELSE contract

\* line 162: `if NIFTY_OPTION_METADATA: return`.
MetadataLoaded(metadata) == metadata # {}

\* load_nifty_option_metadata past its guard, when the request for the master
\* CSV has returned (lines 165-233).  csv_ok: the CSV could be fetched and
\* held monthly NIFTY options; the metadata is then the buckets of its
\* expiries, whatever it was.  A failure is caught and leaves it alone.
load_nifty_option_metadata(metadata, csv_ok) ==
    IF csv_ok THEN { Expiries[i] : i \in 1..Len(Expiries) } ELSE metadata

\* lines 243-256: a new list of shell contracts, one for each expiry of the
\* CSV, in the order of the expiries.
ShellContracts == [i \in 1..Len(Expiries) |-> ShellContract(Expiries[i])]

\* What pick_atm_for_expiry finds: it raises (no strikes, no CE/PE pair), or
\* gives the strike chosen and the two security ids listed for it.
AtmReply(raises, strike) == [raises |-> raises, strike |-> strike]
\* One strike is listed for an expiry.  (With a spot that moves, two threads
\* filling in the same contract would write different strikes into it; the
\* steps below read the contract where the code reads it.)
AtmReplies == { AtmReply(TRUE, 0), AtmReply(FALSE, 26000) }

IsPopulated(contract) ==
    /\ contract.call_security_id # NoSid
    /\ contract.put_security_id # NoSid
    /\ contract.strike # 0

\* lines 427-429: the strike and the two security ids are written into the
\* contract.
Populate(contract, atm) ==
    [contract EXCEPT
       !.strike = atm.strike,
       !.call_security_id = Sid("CE", contract.expiry.day, atm.strike),
       !.put_security_id = Sid("PE", contract.expiry.day, atm.strike)]

\* The value: raised, and the contract as the function leaves it.
ensure_contract_populated(contract, atm) ==
    IF IsPopulated(contract) THEN [raised |-> FALSE, contract |-> contract]
    ELSE IF atm.raises THEN [raised |-> TRUE, contract |-> contract]
    ELSE [raised |-> FALSE, contract |-> Populate(contract, atm)]

\* ensure_contract_populated writes into the dict it was given.  slot is
\* the place of that dict in NIFTY_SYNTH_CONTRACTS, 0 when it is not (or no
\* longer) in the list: the list with that contract replaced.
WithContract(contracts, slot, contract) ==
    IF slot = 0 THEN contracts
    ELSE [i \in 1..Len(contracts) |-> IF i = slot THEN contract ELSE contracts[i]]

\* Indexes into the sorted contracts; 0 is None.
get_near_and_next_contract(contracts, today) ==
    LET later == { i \in 1..Len(contracts) : contracts[i].expiry.day >= today }
        first == CHOOSE i \in later : \A j \in later : i <= j
    IN  IF contracts = <<>> THEN [near |-> 0, next |-> 0]
        ELSE IF later = {} THEN [near |-> Len(contracts), next |-> 0]
        ELSE [near |-> first,
              next |-> IF first + 1 <= Len(contracts) THEN first + 1 ELSE 0]

\* The index of the contract a new long uses; 0 is None.
contract_for_new_long(contracts, today) ==
    LET nn == get_near_and_next_contract(contracts, today)
    IN  IF nn.near = 0 THEN 0
        ELSE IF contracts[nn.near].expiry.day = today /\ nn.next # 0 THEN nn.next
        ELSE nn.near

\* ------------------------------------------------------------ positions

\* get_positions(): the broker's open positions, one per security id; the
\* empty set is also what a failed query gives.
Position(security_id, netQty) == [securityId |-> security_id, netQty |-> netQty]

\* What the broker can hold in the two legs of a populated contract.
PositionReplies(contract) ==
    LET c == contract.call_security_id
        p == contract.put_security_id
    IN  { {},
          { Position(c, 75) },
          { Position(c, 75), Position(p, 75) },
          { Position(c, 75), Position(p, 0 - 75) },
          { Position(c, 150), Position(p, 0 - 150) } }

Min(a, b) == IF a <= b THEN a ELSE b

NoOpenInfo == [open |-> FALSE, qty |-> 0]

\* The open synthetic long in a populated contract; NoOpenInfo is None.
get_open_synth_long_for_contract(contract, positions) ==
    LET calls == { q \in positions : q.securityId = contract.call_security_id }
        puts == { q \in positions : q.securityId = contract.put_security_id
                                    /\ q.securityId # contract.call_security_id }
        call_net == (CHOOSE q \in calls : TRUE).netQty
        put_net == (CHOOSE q \in puts : TRUE).netQty
    IN  IF positions = {} \/ calls = {} \/ puts = {} THEN NoOpenInfo
        ELSE IF call_net > 0 /\ put_net < 0 /\ Min(call_net, 0 - put_net) > 0
        THEN [open |-> TRUE, qty |-> Min(call_net, 0 - put_net)]
        ELSE NoOpenInfo

\* -------------------------------------------------------- the time gate

\* (now_utc + timedelta(hours=5, minutes=30)).time(), in minutes
IstTimeOfDay(minute_utc) == (minute_utc + IST_OFFSET) % MINUTES_PER_DAY

\* A gate that compares the UTC time of day with the cutoff.
BeforeCutoffUtc(minute_utc) == minute_utc < ROLLOVER_CUTOFF

\* A gate that adds the offset and does not take the time of day.
BeforeCutoffNoWrap(minute_utc) == minute_utc + IST_OFFSET < ROLLOVER_CUTOFF

\* line 1101: the rollover is skipped
BeforeCutoff(minute_utc) == IstTimeOfDay(minute_utc) < ROLLOVER_CUTOFF

\* An instant is a number of minutes since 00:00 UTC of day 0.
\* line 1214: today = now_utc.date()
UtcDate(instant) == instant \div MINUTES_PER_DAY
\* the time of day of now_utc
UtcTimeOfDay(instant) == instant % MINUTES_PER_DAY

\* ------------------------------------------------------------------ state

VARIABLES
    SYSTEM_POSITIONS,       \* system_id -> [contract, qty], in memory
    STATE_FILE,             \* the content of /tmp/system_positions.json
    NIFTY_SYNTH_CONTRACTS,  \* the contracts built from the master CSV
    NIFTY_OPTION_METADATA,  \* the expiries the master CSV gave option rows for
    nreq,                   \* requests received so far
    pc,                     \* per thread: where its request handler is
    req,                    \* per thread: the request being handled
    now,                    \* per thread: today and now_utc, while still read
    frame,                  \* per thread: arguments and results of the
                            \*   enter/exit in progress
    rollover_results,       \* per thread: what rollover_synthetic_if_needed returned
    calls,                  \* per thread: the calls of place_order_with_checks
                            \*   made for this request, in order
    last_submit,            \* per thread: the last place_order_with_checks call
    resp,                   \* per thread: the HTTP response
    pre,                    \* per thread: SYSTEM_POSITIONS when the request came
    tmp,                    \* per thread: the temporary file of save_system_positions
    probe,                  \* the last application of a pure function
    scope                   \* the system ids requests are calls for

vars == <<SYSTEM_POSITIONS, STATE_FILE, NIFTY_SYNTH_CONTRACTS,
          NIFTY_OPTION_METADATA, nreq, pc, req, now,
          frame, rollover_results, calls, last_submit, resp, pre, tmp, probe, scope>>

\* Every step of the server leaves these alone.
Fixed == UNCHANGED <<probe, scope>>

EmptyDict == [i \in {} |-> 0]
DictPut(d, k, v) == [i \in DOMAIN d \cup {k} |-> IF i = k THEN v ELSE d[i]]
DictDel(d, k) == [i \in DOMAIN d \ {k} |-> d[i]]

Signals == {"BUY", "SELL", "EXIT", "CHECK", "HOLD"}
Underlyings == {"NIFTY", "BANKNIFTY"}
Qtys == {75}
\* UTC minutes of the day: 06:59, 07:00, 18:29 and 18:30, which are 12:29,
\* 12:30, 23:59 and 00:00 (of the next day) at UTC+5:30.
Minutes == {419, 420, 1109, 1110}

NoRequest == [signal |-> "None", system_id |-> "", qty |-> 0, underlying |-> "None"]
NoClock == [today |-> 0, minute |-> 0]
\* enter_synthetic_long / exit_synthetic_long has not returned
NoReturn == [returned |-> FALSE]
\* at: the function waiting for the master CSV or the option chain;
\* slot: the place of contract in NIFTY_SYNTH_CONTRACTS, 0 when it is not
\* in the list; orphan: near and next_c are dicts of a list that has been
\* replaced, next_obj being the second; iter: the registry when json.dump
\* began to iterate it; resized: a key was added to the registry or removed
\* from it since; call_sid, put_sid: the locals of enter_synthetic_long and
\* exit_synthetic_long, NoSid until they are read from the contract.
NoFrame == [ctx |-> "None", contract |-> NoContract, qty |-> 0,
            call_sid |-> NoSid, put_sid |-> NoSid,
            near |-> 0, next_c |-> 0,
            at |-> "None", slot |-> 0, orphan |-> FALSE, next_obj |-> NoContract,
            iter |-> EmptyDict, resized |-> FALSE,
            buy_call |-> NoResult, buy_put |-> NoResult,
            exit_res |-> NoReturn, enter_res |-> NoReturn]
\* rollover_synthetic_if_needed has not returned / returned None
NotRun == [ran |-> FALSE]
NoneResult == [ran |-> TRUE, none |-> TRUE]
NoSubmit == [side |-> "None", security_id |-> NoSid, qty |-> 0, ensure_fill |-> FALSE,
             raised |-> FALSE, result |-> NoResult, posted |-> <<>>, checks |-> <<>>]
NoResponse == [code |-> 0, status |-> "None"]
Response(code, status) == [code |-> code, status |-> status]

NoProbe == [fn |-> "None"]

\* The server after start-up: no state file, no contracts loaded, one
\* request thread.
ServerInit ==
    /\ SYSTEM_POSITIONS = EmptyDict
    /\ STATE_FILE = EmptyDict
    /\ NIFTY_SYNTH_CONTRACTS = <<>>
    /\ NIFTY_OPTION_METADATA = {}
    /\ nreq = 0
    /\ pc = [t \in Threads |-> IF t = "t1" THEN "idle" ELSE "off"]
    /\ req = [t \in Threads |-> NoRequest]
    /\ now = [t \in Threads |-> NoClock]
    /\ frame = [t \in Threads |-> NoFrame]
    /\ rollover_results = [t \in Threads |-> NotRun]
    /\ calls = [t \in Threads |-> <<>>]
    /\ last_submit = [t \in Threads |-> NoSubmit]
    /\ resp = [t \in Threads |-> NoResponse]
    /\ pre = [t \in Threads |-> EmptyDict]
    /\ tmp = [t \in Threads |-> EmptyDict]

Init ==
    /\ ServerInit
    /\ probe = NoProbe
    /\ scope = {"s1"}

\* ---------------------------------------------------------------- steps

\* The variables a step of the control flow may write; every Flow* below
\* gives all of them.
Goto(t, label) == pc' = [pc EXCEPT ![t] = label]

\* The frames of the threads are given as frames where a step has also
\* changed what another thread holds.

\* An exception leaves tv_webhook: Flask answers 500.
FlowRaiseFrom(t, frames) ==
    /\ Goto(t, "done")
    /\ resp' = [resp EXCEPT ![t] = Response(500, "exception")]
    /\ frame' = frames
    /\ UNCHANGED <<rollover_results, SYSTEM_POSITIONS>>
FlowRaise(t) == FlowRaiseFrom(t, frame)

\* tv_webhook returns a response without touching the registry.
FlowRespondFrom(t, code, status, frames) ==
    /\ Goto(t, "done")
    /\ resp' = [resp EXCEPT ![t] = Response(code, status)]
    /\ frame' = frames
    /\ UNCHANGED <<rollover_results, SYSTEM_POSITIONS>>
FlowRespond(t, code, status) == FlowRespondFrom(t, code, status, frame)

\* rollover_synthetic_if_needed returns res to tv_webhook (lines 1225-1227).
FlowRolloverReturnsFrom(t, res, frames) ==
    /\ Goto(t, "dispatch")
    /\ rollover_results' = [rollover_results EXCEPT ![t] = res]
    /\ frame' = [frames EXCEPT ![t] = NoFrame]
    /\ UNCHANGED <<resp, SYSTEM_POSITIONS>>
FlowRolloverReturns(t, res) == FlowRolloverReturnsFrom(t, res, frame)

\* The contract a thread holds, as it is now: the dict in the list when it
\* is in the list (another thread may have filled it in).
Held(f, contracts) == IF f.slot # 0 THEN contracts[f.slot] ELSE f.contract

\* enter_synthetic_long, lines 1016-1017, and exit_synthetic_long, lines
\* 1054-1055: the two security ids are read from the contract into locals;
\* the orders are placed with the locals, whatever is written into the
\* contract afterwards.
ReadIds(f, contract) ==
    [f EXCEPT !.call_sid = contract.call_security_id,
              !.put_sid = contract.put_security_id]

\* The frame of a thread when NIFTY_SYNTH_CONTRACTS is replaced by a new
\* list: the dicts it holds are those of the old list.
Orphaned(f, contracts) ==
    IF f.orphan \/ (f.slot = 0 /\ f.next_c = 0) THEN f
    ELSE [f EXCEPT !.contract = Held(f, contracts),
                   !.slot = 0,
                   !.orphan = TRUE,
                   !.next_obj = IF f.next_c # 0 THEN contracts[f.next_c]
                                ELSE NoContract]

\* The dict place_order_with_checks returned, as its callers keep it: the
\* keys they read.  (The whole dict is in last_submit.)
Kept(result) ==
    [k \in DOMAIN result \cap {"placed", "filled_completely", "liquidity_ok", "margin_ok"}
        |-> result[k]]

\* What one call of place_order_with_checks leaves behind.  op is the
\* function calling ("enter", "exit"), ctx its caller ("rollover", "signal");
\* posted: the order went to POST /orders.
Submitted(t, side, security_id, qty, ensure_fill, op, out) ==
    /\ calls' = [calls EXCEPT ![t] = Append(@,
                   [side |-> side, security_id |-> security_id, qty |-> qty,
                    ensure_fill |-> ensure_fill, op |-> op, ctx |-> frame[t].ctx,
                    posted |-> out.posted # <<>>, raised |-> out.raised,
                    result |-> Kept(out.result)])]
    /\ last_submit' = [last_submit EXCEPT ![t] =
                         [side |-> side, security_id |-> security_id, qty |-> qty,
                          ensure_fill |-> ensure_fill, raised |-> out.raised,
                          result |-> out.result, posted |-> out.posted,
                          checks |-> out.checks]]

\* tv_webhook, lines 1182-1220: the request is read and validated.
Receive(t) ==
    /\ pc[t] = "idle"
    /\ nreq < MaxRequests
    /\ \E signal \in Signals, system_id \in scope \cup {""},
          qty \in Qtys, underlying \in Underlyings,
          today \in 0..MaxDay, minute \in Minutes :
          /\ req' = [req EXCEPT ![t] =
                       [signal |-> signal, system_id |-> system_id, qty |-> qty,
                        underlying |-> underlying]]
          /\ now' = [now EXCEPT ![t] = [today |-> today, minute |-> minute]]
          /\ IF signal \in {"BUY", "SELL", "EXIT"} /\ system_id = ""
             THEN FlowRespond(t, 400, "error")
             ELSE IF underlying # "NIFTY"
             THEN FlowRespond(t, 400, "error")
             ELSE /\ Goto(t, "rollover")
                  /\ UNCHANGED <<resp, frame, rollover_results, SYSTEM_POSITIONS>>
    /\ nreq' = nreq + 1
    /\ pre' = [pre EXCEPT ![t] = SYSTEM_POSITIONS]
    /\ UNCHANGED <<STATE_FILE, NIFTY_SYNTH_CONTRACTS,
                   NIFTY_OPTION_METADATA, calls, last_submit, tmp>>
    /\ Fixed

\* An entry that goes on once the BUY CALL is placed, filled or not.
EnterGoesOnIfPlaced(buy_call) == Get(buy_call, "placed", FALSE)

\* line 1025: enter_synthetic_long goes on to SELL PUT
EnterGoesOn(buy_call) ==
    Get(buy_call, "placed", FALSE) /\ Get(buy_call, "filled_completely", FALSE)

\* An exit that goes on whatever became of the BUY PUT.
ExitGoesOnAlways(buy_put) == TRUE

\* line 1063: exit_synthetic_long goes on to SELL CALL
ExitGoesOn(buy_put) ==
    Get(buy_put, "placed", FALSE) /\ Get(buy_put, "filled_completely", FALSE)

\* A BUY handler without the duplicate test.
AlreadyOpenNever(system_id, positions) == FALSE

\* line 1259: the system already holds a position
AlreadyOpen(system_id, positions) == system_id \in DOMAIN positions

\* line 1125: the rollover goes on to enter the next contract
RolloverEnters(exit_res) == Get(exit_res, "exited", FALSE)

\* tv_webhook, lines 1271-1276: the new position is recorded
RecordedPosition(contract, qty) ==
    [contract |-> serialize_contract(contract), qty |-> qty]

\* A SELL handler that drops the position whatever the exit returned.
ExitDeletesAlways(exit_res) == TRUE

\* line 1309: the position is dropped from the registry
ExitDeletes(exit_res) == Get(exit_res, "exited", FALSE)

\* The frames once the registry went from began to ended: a json.dump that
\* is iterating the registry has its dict resized under it.
Resized(frames, began, ended) ==
    [u \in Threads |->
        IF pc[u] = "dump" /\ DOMAIN began # DOMAIN ended
        THEN [frames[u] EXCEPT !.resized = TRUE]
        ELSE frames[u]]

\* exit_synthetic_long returns exit_res to its caller:
\* rollover_synthetic_if_needed (lines 1125-1134) or tv_webhook (1309-1323).
FlowExitReturns(t, exit_res) ==
    IF frame[t].ctx = "rollover"
    THEN IF RolloverEnters(exit_res)
         \* line 1135: enter_synthetic_long(next_c, ...), next_c being the
         \* dict the rollover took from the list, read as it is now (lines
         \* 1014-1017): filled in, its ids are read; not filled in, the
         \* option chain or the master CSV is asked for (lines 420-425)
         THEN LET next == IF frame[t].orphan THEN frame[t].next_obj
                          ELSE NIFTY_SYNTH_CONTRACTS[frame[t].next_c]
                  f == [frame[t] EXCEPT
                          !.exit_res = exit_res,
                          !.contract = next,
                          !.slot = IF frame[t].orphan THEN 0
                                   ELSE frame[t].next_c]
              IN  /\ IF IsPopulated(next)
                     THEN /\ Goto(t, "enter_call")
                          /\ frame' = [frame EXCEPT ![t] = ReadIds(f, next)]
                     ELSE /\ Goto(t, IF MetadataLoaded(NIFTY_OPTION_METADATA)
                                     THEN "atm" ELSE "csv")
                          /\ frame' = [frame EXCEPT ![t] =
                                          [f EXCEPT !.at = "enter",
                                                    !.call_sid = NoSid,
                                                    !.put_sid = NoSid]]
                  /\ UNCHANGED <<resp, rollover_results, SYSTEM_POSITIONS>>
         ELSE FlowRolloverReturns(t, [ran |-> TRUE, rolled |-> FALSE,
                                      reason |-> "exit_old_failed",
                                      exit_result |-> exit_res])
    ELSE /\ UNCHANGED rollover_results
         /\ IF ~ExitDeletes(exit_res)
            THEN /\ resp' = [resp EXCEPT ![t] =
                               Response(200, IF Get(exit_res, "exited", FALSE)
                                             THEN "ok" ELSE "failed")]
                 /\ UNCHANGED SYSTEM_POSITIONS
                 /\ Goto(t, "done")
            ELSE IF req[t].system_id \in DOMAIN SYSTEM_POSITIONS
            THEN /\ resp' = [resp EXCEPT ![t] =
                               Response(200, IF Get(exit_res, "exited", FALSE)
                                             THEN "ok" ELSE "failed")]
                 /\ SYSTEM_POSITIONS' = DictDel(SYSTEM_POSITIONS, req[t].system_id)
                 /\ Goto(t, "save")
            \* line 1310: del of a key that is gone raises KeyError
            ELSE /\ resp' = [resp EXCEPT ![t] = Response(500, "exception")]
                 /\ UNCHANGED SYSTEM_POSITIONS
                 /\ Goto(t, "done")
         /\ frame' = Resized([frame EXCEPT ![t].exit_res = exit_res],
                             SYSTEM_POSITIONS, SYSTEM_POSITIONS')

\* enter_synthetic_long returns enter_res to its caller:
\* rollover_synthetic_if_needed (lines 1135-1151) or tv_webhook (1268-1291).
\* Line 1273 records a copy of the contract as it is at the write: when it
\* is a dict of the list, with what another thread has written into it
\* since the ids of the orders were read.
FlowEnterReturns(t, enter_res) ==
    IF frame[t].ctx = "rollover"
    THEN FlowRolloverReturns(t,
            IF ~Get(enter_res, "entered", FALSE)
            THEN [ran |-> TRUE, rolled |-> FALSE,
                  reason |-> "enter_new_failed_after_exit",
                  exit_result |-> frame[t].exit_res, enter_result |-> enter_res]
            ELSE [ran |-> TRUE, rolled |-> TRUE, qty |-> frame[t].qty,
                  from_contract |-> NIFTY_SYNTH_CONTRACTS[frame[t].near].name,
                  to_contract |-> frame[t].contract.name,
                  exit_result |-> frame[t].exit_res, enter_result |-> enter_res])
    ELSE /\ resp' = [resp EXCEPT ![t] =
                       Response(200, IF Get(enter_res, "entered", FALSE)
                                     THEN "ok" ELSE "failed")]
         /\ UNCHANGED rollover_results
         /\ IF Get(enter_res, "entered", FALSE)
            THEN /\ SYSTEM_POSITIONS' =
                       DictPut(SYSTEM_POSITIONS, req[t].system_id,
                               RecordedPosition(
                                  Held(frame[t], NIFTY_SYNTH_CONTRACTS),
                                  req[t].qty))
                 /\ Goto(t, "save")
            ELSE /\ UNCHANGED SYSTEM_POSITIONS
                 /\ Goto(t, "done")
         /\ frame' = Resized([frame EXCEPT ![t].enter_res = enter_res],
                             SYSTEM_POSITIONS, SYSTEM_POSITIONS')

\* rollover_synthetic_if_needed, lines 1115-1121, with near filled in:
\* GET /positions and the open position in the near contract.
RolloverFromPositions(t, f, frames) ==
    \E positions \in PositionReplies(f.contract) :
       LET open_info == get_open_synth_long_for_contract(f.contract, positions)
       IN  IF ~open_info.open
           THEN FlowRolloverReturnsFrom(t, NoneResult, frames)
           ELSE /\ Goto(t, "exit_put")
                /\ frame' = [frames EXCEPT ![t] =
                                [f EXCEPT !.qty = open_info.qty, !.at = "None"]]
                /\ UNCHANGED <<resp, rollover_results, SYSTEM_POSITIONS>>

\* get_open_synth_long_for_contract, lines 960-966, for the near contract
\* as it is now: filled in, GET /positions is asked; not filled in, the
\* option chain is asked for (the metadata is loaded whenever a list was
\* built).
RolloverFromNear(t, f, frames) ==
    IF IsPopulated(f.contract)
    THEN RolloverFromPositions(t, f, frames)
    ELSE /\ Goto(t, "atm")
         /\ frame' = [frames EXCEPT ![t] = [f EXCEPT !.at = "rollover"]]
         /\ UNCHANGED <<resp, rollover_results, SYSTEM_POSITIONS>>

\* rollover_synthetic_if_needed, lines 1106-1113, with the metadata loaded
\* or the load given up: the near and next contracts of the list are taken
\* (line 437); on the expiry day of near the thread prints (line 1113)
\* before it reads the contract.
RolloverFromList(t, contracts, frames) ==
    LET nn == get_near_and_next_contract(contracts, now[t].today)
        f == [NoFrame EXCEPT !.ctx = "rollover",
                             !.contract = contracts[nn.near],
                             !.slot = nn.near,
                             !.near = nn.near,
                             !.next_c = nn.next]
    IN  IF nn.near = 0 \/ nn.next = 0
        THEN FlowRolloverReturnsFrom(t, NoneResult, frames)
        ELSE IF contracts[nn.near].expiry.day # now[t].today
        THEN FlowRolloverReturnsFrom(t, NoneResult, frames)
        ELSE /\ Goto(t, "near")
             /\ frame' = [frames EXCEPT ![t] = f]
             /\ UNCHANGED <<resp, rollover_results, SYSTEM_POSITIONS>>

\* rollover_synthetic_if_needed, lines 1115-1121: after the print of line
\* 1113 the near contract is read as it is now; another thread may have
\* filled it in, or replaced the list it was taken from.
RolloverOpenInfo(t) ==
    /\ pc[t] = "near"
    /\ RolloverFromNear(t, [frame[t] EXCEPT
                               !.contract = Held(frame[t], NIFTY_SYNTH_CONTRACTS)],
                        frame)
    /\ UNCHANGED <<STATE_FILE, NIFTY_SYNTH_CONTRACTS,
                   NIFTY_OPTION_METADATA, nreq, req, now, calls,
                   last_submit, pre, tmp>>
    /\ Fixed

\* rollover_synthetic_if_needed, lines 1097-1106: the time gate, and the
\* guard of load_nifty_option_metadata (line 162); with nothing loaded the
\* master CSV is asked for.
Rollover(t) ==
    /\ pc[t] = "rollover"
    /\ IF BeforeCutoff(now[t].minute)
       THEN FlowRolloverReturns(t, NoneResult)
       ELSE IF ~MetadataLoaded(NIFTY_OPTION_METADATA)
       THEN /\ Goto(t, "csv")
            /\ frame' = [frame EXCEPT ![t] = [NoFrame EXCEPT !.at = "rollover"]]
            /\ UNCHANGED <<resp, rollover_results, SYSTEM_POSITIONS>>
       ELSE RolloverFromList(t, NIFTY_SYNTH_CONTRACTS, frame)
    /\ UNCHANGED <<STATE_FILE, NIFTY_SYNTH_CONTRACTS,
                   NIFTY_OPTION_METADATA, nreq, req, now, calls,
                   last_submit, pre, tmp>>
    /\ Fixed

\* tv_webhook, lines 1259-1268, with the contract of the new long filled
\* in: the duplicate test; enter_synthetic_long then reads the ids of the
\* contract (lines 1014-1017) before it prints.
DispatchFromContract(t, contract, slot, frames) ==
    IF AlreadyOpen(req[t].system_id, SYSTEM_POSITIONS)
    THEN FlowRespondFrom(t, 200, "ignored", [frames EXCEPT ![t] = NoFrame])
    ELSE /\ Goto(t, "enter_call")
         /\ frame' = [frames EXCEPT ![t] =
                         ReadIds([NoFrame EXCEPT !.ctx = "signal",
                                                 !.contract = contract,
                                                 !.slot = slot,
                                                 !.qty = req[t].qty],
                                 contract)]
         /\ UNCHANGED <<resp, rollover_results, SYSTEM_POSITIONS>>

\* get_contract_for_new_long, line 487, and tv_webhook, lines 1248-1266:
\* the contract chosen is read as it is now; filled in, the duplicate test
\* follows; not filled in, the option chain is asked for (the metadata is
\* loaded whenever a list was built).
DispatchFromChosen(t, contract, slot, frames) ==
    IF IsPopulated(contract)
    THEN DispatchFromContract(t, contract, slot, frames)
    ELSE /\ Goto(t, "atm")
         /\ frame' = [frames EXCEPT ![t] =
                         [NoFrame EXCEPT !.at = "dispatch",
                                         !.contract = contract,
                                         !.slot = slot]]
         /\ UNCHANGED <<resp, rollover_results, SYSTEM_POSITIONS>>

\* get_contract_for_new_long, lines 474-484, with the metadata loaded or
\* the load given up: the contract of the new long is taken from the list
\* (line 437).  On the expiry day of near, with a next contract, the thread
\* prints (lines 479-481) before it reads the contract.
DispatchFromList(t, contracts, frames) ==
    LET nn == get_near_and_next_contract(contracts, now[t].today)
        idx == contract_for_new_long(contracts, now[t].today)
    IN  IF idx = 0
        THEN FlowRespondFrom(t, 500, "error", [frames EXCEPT ![t] = NoFrame])
        ELSE IF contracts[nn.near].expiry.day = now[t].today /\ nn.next # 0
        THEN /\ Goto(t, "chosen")
             /\ frame' = [frames EXCEPT ![t] =
                             [NoFrame EXCEPT !.at = "dispatch",
                                             !.contract = contracts[idx],
                                             !.slot = idx]]
             /\ UNCHANGED <<resp, rollover_results, SYSTEM_POSITIONS>>
        ELSE DispatchFromChosen(t, contracts[idx], idx, frames)

\* get_contract_for_new_long, line 487, after the print of lines 479-481:
\* the contract chosen is read as it is now, and the registry as it is now
\* (line 1259).
DispatchChosen(t) ==
    /\ pc[t] = "chosen"
    /\ DispatchFromChosen(t, Held(frame[t], NIFTY_SYNTH_CONTRACTS),
                          frame[t].slot, frame)
    /\ UNCHANGED <<STATE_FILE, NIFTY_SYNTH_CONTRACTS,
                   NIFTY_OPTION_METADATA, nreq, req, now, calls,
                   last_submit, pre, tmp>>
    /\ Fixed

\* What the caller of load_nifty_option_metadata does when it returns: the
\* rollover (line 1106) and get_contract_for_new_long (line 474) read the
\* list, pick_atm_for_expiry raises when no metadata is loaded (line 276) and
\* asks for the option chain otherwise.
AfterLoad(t, metadata, contracts, frames) ==
    IF frame[t].at = "rollover"
    THEN RolloverFromList(t, contracts, frames)
    ELSE IF frame[t].at = "dispatch"
    THEN DispatchFromList(t, contracts, frames)
    ELSE IF ~MetadataLoaded(metadata)
    THEN FlowRaiseFrom(t, [frames EXCEPT ![t].at = "None"])
    ELSE /\ Goto(t, "atm")
         /\ frame' = frames
         /\ UNCHANGED <<resp, rollover_results, SYSTEM_POSITIONS>>

\* The request for the master CSV returns (lines 167-240).  When it gave
\* option rows NIFTY_OPTION_METADATA is set (line 233), whatever another
\* thread has loaded since, and the thread prints (line 240) before it
\* builds the contracts; a failure is caught and printed (lines 259-260),
\* or the function prints and returns with nothing set (lines 194-195,
\* 228-229).
FetchCsv(t) ==
    /\ pc[t] = "csv"
    /\ \E csv_ok \in BOOLEAN :
          /\ NIFTY_OPTION_METADATA' =
                load_nifty_option_metadata(NIFTY_OPTION_METADATA, csv_ok)
          /\ Goto(t, IF csv_ok THEN "shells" ELSE "loaded")
    /\ UNCHANGED <<SYSTEM_POSITIONS, STATE_FILE, NIFTY_SYNTH_CONTRACTS, nreq, req,
                   now, frame, rollover_results, calls, last_submit, resp,
                   pre, tmp>>
    /\ Fixed

\* load_nifty_option_metadata, lines 243-257: NIFTY_SYNTH_CONTRACTS is
\* replaced by new shells, whatever another thread has filled in since; the
\* dicts other threads hold are those of the old list.  The thread prints
\* (line 257) and returns.
BuildContracts(t) ==
    /\ pc[t] = "shells"
    /\ NIFTY_SYNTH_CONTRACTS' = ShellContracts
    /\ frame' = [u \in Threads |-> Orphaned(frame[u], NIFTY_SYNTH_CONTRACTS)]
    /\ Goto(t, "loaded")
    /\ UNCHANGED <<SYSTEM_POSITIONS, STATE_FILE, NIFTY_OPTION_METADATA, nreq, req,
                   now, rollover_results, calls, last_submit, resp, pre, tmp>>
    /\ Fixed

\* load_nifty_option_metadata has returned to its caller, which reads what
\* is loaded now (lines 437, 275).
LoadReturns(t) ==
    /\ pc[t] = "loaded"
    /\ AfterLoad(t, NIFTY_OPTION_METADATA, NIFTY_SYNTH_CONTRACTS, frame)
    \* today is not read after get_contract_for_new_long has its contract
    /\ now' = IF frame[t].at = "dispatch" THEN [now EXCEPT ![t] = NoClock] ELSE now
    /\ UNCHANGED <<STATE_FILE, NIFTY_SYNTH_CONTRACTS, NIFTY_OPTION_METADATA, nreq,
                   req, calls, last_submit, pre, tmp>>
    /\ Fixed

\* pick_atm_for_expiry returns or raises (lines 286-409), and
\* ensure_contract_populated writes into the contract (lines 427-429); the
\* caller goes on: enter_synthetic_long and exit_synthetic_long read the
\* ids they have just written (lines 1016-1017, 1054-1055).
PickAtm(t) ==
    /\ pc[t] = "atm"
    /\ \E atm \in AtmReplies :
          IF atm.raises
          THEN /\ FlowRaiseFrom(t, IF frame[t].at \in {"rollover", "dispatch"}
                                   THEN [frame EXCEPT ![t] = NoFrame]
                                   ELSE [frame EXCEPT ![t].at = "None"])
               /\ UNCHANGED NIFTY_SYNTH_CONTRACTS
          ELSE LET c == Populate(frame[t].contract, atm)
                   f == [frame[t] EXCEPT !.contract = c, !.at = "None"]
               IN  /\ NIFTY_SYNTH_CONTRACTS' =
                          WithContract(NIFTY_SYNTH_CONTRACTS, frame[t].slot, c)
                   /\ IF frame[t].at = "rollover"
                      THEN RolloverFromPositions(t, f, frame)
                      ELSE IF frame[t].at = "dispatch"
                      THEN DispatchFromContract(t, c, frame[t].slot, frame)
                      ELSE /\ Goto(t, IF frame[t].at = "enter" THEN "enter_call"
                                      ELSE "exit_put")
                           /\ frame' = [frame EXCEPT ![t] = ReadIds(f, c)]
                           /\ UNCHANGED <<resp, rollover_results, SYSTEM_POSITIONS>>
    /\ UNCHANGED <<STATE_FILE, NIFTY_OPTION_METADATA, nreq, req, now, calls,
                   last_submit, pre, tmp>>
    /\ Fixed

\* ensure_contract_populated, lines 420-425, for a contract that is not
\* filled in: pick_atm_for_expiry asks for the master CSV when nothing is
\* loaded (line 274) and for the option chain otherwise.
WaitsForContract(t, caller) ==
    /\ Goto(t, IF MetadataLoaded(NIFTY_OPTION_METADATA) THEN "atm" ELSE "csv")
    /\ frame' = [frame EXCEPT ![t] =
                    [@ EXCEPT !.at = caller,
                              !.contract = Held(frame[t], NIFTY_SYNTH_CONTRACTS)]]
    /\ UNCHANGED <<resp, rollover_results, SYSTEM_POSITIONS, calls, last_submit>>

\* exit_synthetic_long, lines 1052-1069: the contract is read as it is now
\* and filled in if it is not (line 1052), its ids are read (lines
\* 1054-1055) unless they were when the option chain answered, then BUY PUT,
\* waiting for the fill.
ExitBuyPut(t) ==
    /\ pc[t] = "exit_put"
    /\ LET contract == Held(frame[t], NIFTY_SYNTH_CONTRACTS)
           f == IF frame[t].call_sid # NoSid THEN frame[t]
                ELSE ReadIds(frame[t], contract)
       IN  IF frame[t].call_sid = NoSid /\ ~IsPopulated(contract)
           THEN WaitsForContract(t, "exit")
           ELSE \E env \in SubmitEnvs(frame[t].qty, TRUE) :
              LET sid == f.put_sid
                  out == place_order_with_checks("BUY", sid, frame[t].qty, TRUE, env)
              IN  /\ Submitted(t, "BUY", sid, frame[t].qty, TRUE, "exit", out)
                  /\ IF out.raised THEN FlowRaise(t)
                     ELSE IF ~ExitGoesOn(out.result)
                     THEN FlowExitReturns(t,
                             [exited |-> FALSE,
                              reason |-> "buy_put_failed_or_not_filled",
                              buy_put |-> Kept(out.result)])
                     ELSE /\ Goto(t, "exit_call")
                          /\ frame' = [frame EXCEPT ![t] =
                                          [f EXCEPT !.buy_put = Kept(out.result)]]
                          /\ UNCHANGED <<resp, rollover_results, SYSTEM_POSITIONS>>
    /\ UNCHANGED <<STATE_FILE, NIFTY_SYNTH_CONTRACTS,
                   NIFTY_OPTION_METADATA, nreq, req, now, pre, tmp>>
    /\ Fixed

\* exit_synthetic_long, lines 1071-1080: SELL CALL, not waiting.
ExitSellCall(t) ==
    /\ pc[t] = "exit_call"
    /\ \E env \in SubmitEnvs(frame[t].qty, FALSE) :
          LET sid == frame[t].call_sid
              out == place_order_with_checks("SELL", sid, frame[t].qty, FALSE, env)
          IN  /\ Submitted(t, "SELL", sid, frame[t].qty, FALSE, "exit", out)
              /\ IF out.raised THEN FlowRaise(t)
                 ELSE FlowExitReturns(t,
                         [exited |-> TRUE, contract |-> frame[t].contract.name,
                          qty |-> frame[t].qty, buy_put |-> frame[t].buy_put,
                          sell_call |-> Kept(out.result)])
    /\ UNCHANGED <<STATE_FILE, NIFTY_SYNTH_CONTRACTS,
                   NIFTY_OPTION_METADATA, nreq, req, now, pre, tmp>>
    /\ Fixed

\* enter_synthetic_long, lines 1019-1031: with the ids read from the
\* contract (lines 1016-1017), BUY CALL, waiting for the fill.
EnterBuyCall(t) ==
    /\ pc[t] = "enter_call"
    /\ \E env \in SubmitEnvs(frame[t].qty, TRUE) :
          LET sid == frame[t].call_sid
              out == place_order_with_checks("BUY", sid, frame[t].qty, TRUE, env)
          IN  /\ Submitted(t, "BUY", sid, frame[t].qty, TRUE, "enter", out)
              /\ IF out.raised THEN FlowRaise(t)
                 ELSE IF ~EnterGoesOn(out.result)
                 THEN FlowEnterReturns(t,
                         [entered |-> FALSE,
                          reason |-> "buy_call_failed_or_not_filled",
                          buy_call |-> Kept(out.result)])
                 ELSE /\ Goto(t, "enter_put")
                      /\ frame' = [frame EXCEPT ![t].buy_call = Kept(out.result)]
                      /\ UNCHANGED <<resp, rollover_results, SYSTEM_POSITIONS>>
    /\ UNCHANGED <<STATE_FILE, NIFTY_SYNTH_CONTRACTS,
                   NIFTY_OPTION_METADATA, nreq, req, now, pre, tmp>>
    /\ Fixed

\* enter_synthetic_long, lines 1033-1042: SELL PUT, not waiting.
EnterSellPut(t) ==
    /\ pc[t] = "enter_put"
    /\ \E env \in SubmitEnvs(frame[t].qty, FALSE) :
          LET sid == frame[t].put_sid
              out == place_order_with_checks("SELL", sid, frame[t].qty, FALSE, env)
          IN  /\ Submitted(t, "SELL", sid, frame[t].qty, FALSE, "enter", out)
              /\ IF out.raised THEN FlowRaise(t)
                 ELSE FlowEnterReturns(t,
                         [entered |-> TRUE, contract |-> frame[t].contract.name,
                          qty |-> frame[t].qty, buy_call |-> frame[t].buy_call,
                          sell_put |-> Kept(out.result)])
    /\ UNCHANGED <<STATE_FILE, NIFTY_SYNTH_CONTRACTS,
                   NIFTY_OPTION_METADATA, nreq, req, now, pre, tmp>>
    /\ Fixed

\* tv_webhook, lines 1233-1331: the signal is acted on.  Lines 1304-1311 are
\* indented with tabs; they are read at the level of the block around them.
Dispatch(t) ==
    /\ pc[t] = "dispatch"
    /\ IF req[t].signal = "CHECK"
       THEN /\ FlowRespond(t, 200, "ok")
            /\ UNCHANGED <<NIFTY_SYNTH_CONTRACTS, NIFTY_OPTION_METADATA>>
       \* line 1246: get_contract_for_new_long; with nothing loaded the
       \* master CSV is asked for (line 162)
       ELSE IF req[t].signal = "BUY"
       THEN /\ UNCHANGED <<NIFTY_SYNTH_CONTRACTS, NIFTY_OPTION_METADATA>>
            /\ IF ~MetadataLoaded(NIFTY_OPTION_METADATA)
               THEN /\ Goto(t, "csv")
                    /\ frame' = [frame EXCEPT ![t] =
                                    [NoFrame EXCEPT !.at = "dispatch"]]
                    /\ UNCHANGED <<resp, rollover_results, SYSTEM_POSITIONS>>
               ELSE DispatchFromList(t, NIFTY_SYNTH_CONTRACTS, frame)
       ELSE IF req[t].signal \in {"SELL", "EXIT"}
       THEN /\ UNCHANGED <<NIFTY_SYNTH_CONTRACTS, NIFTY_OPTION_METADATA>>
            /\ IF req[t].system_id \notin DOMAIN SYSTEM_POSITIONS
               THEN FlowRespond(t, 200, "ignored")
               ELSE LET pos == SYSTEM_POSITIONS[req[t].system_id]
                    IN  /\ Goto(t, "exit_put")
                        /\ frame' = [frame EXCEPT ![t] =
                              [NoFrame EXCEPT
                                 !.ctx = "signal",
                                 !.contract = deserialize_contract(pos.contract),
                                 !.qty = pos.qty]]
                        /\ UNCHANGED <<resp, rollover_results, SYSTEM_POSITIONS>>
       ELSE /\ FlowRespond(t, 400, "ignored")
            /\ UNCHANGED <<NIFTY_SYNTH_CONTRACTS, NIFTY_OPTION_METADATA>>
    \* today and now_utc are not read again once the contract is chosen, and
    \* the next call of place_order_with_checks starts afresh
    /\ now' = IF pc'[t] = "csv" THEN now ELSE [now EXCEPT ![t] = NoClock]
    /\ last_submit' = [last_submit EXCEPT ![t] = NoSubmit]
    /\ UNCHANGED <<STATE_FILE, nreq, req, calls, pre, tmp>>
    /\ Fixed

\* A file cut short: not a JSON document.
Corrupt == [i \in {"corrupt"} |-> 0]

\* A file that holds JSON which is not an object.
NotAnObject == [i \in {"list"} |-> 0]

\* A load that hands on whatever the file holds.
LoadAsIs(file) == file

\* os.replace that leaves the target cut short when it fails
os_replace_torn(file, temp, ok) == IF ok THEN temp ELSE Corrupt

\* os.replace(temp_path, STATE_FILE), line 52: the state file is the
\* temporary file, or, when the call fails, what it was.
os_replace(file, temp, ok) == IF ok THEN temp ELSE file

\* json.dump writes strings and numbers; a datetime.date makes it raise.
JsonSerializable(state) ==
    \A k \in DOMAIN state : state[k].contract.expiry.kind # "date"

\* What json.dump can write of a registry it iterates while other threads
\* write it: the keys the registry has when the iteration ends, and for
\* each key the record it had when the iteration began or the one it has at
\* the end.
DumpedOf(began, ended) ==
    { d \in [DOMAIN ended -> { began[k] : k \in DOMAIN began }
                              \cup { ended[k] : k \in DOMAIN ended }] :
         \A k \in DOMAIN ended :
            d[k] \in (IF k \in DOMAIN began THEN {began[k]} ELSE {})
                        \cup {ended[k]} }

\* save_system_positions, lines 47-49: the temporary file is made and
\* json.dump begins to iterate the registry, which other threads can still
\* write.
SaveOpen(t) ==
    /\ pc[t] = "save"
    /\ Goto(t, "dump")
    /\ frame' = [frame EXCEPT ![t].iter = SYSTEM_POSITIONS]
    /\ tmp' = [tmp EXCEPT ![t] = Corrupt]
    /\ UNCHANGED <<SYSTEM_POSITIONS, STATE_FILE, NIFTY_SYNTH_CONTRACTS,
                   NIFTY_OPTION_METADATA, nreq, req, now,
                   rollover_results, calls, last_submit, resp, pre>>
    /\ Fixed

\* save_system_positions, lines 49-50 and 54-55: json.dump comes to its
\* end.  It raises when the registry has more or fewer keys than when the
\* iteration began ("dictionary changed size during iteration"); when keys
\* were removed and as many added it raises or not, by how far the
\* iteration had come; it raises when a record cannot be serialized and
\* when the disk fails (disk_ok is false).  The failure is caught, the
\* temporary file is left cut short and the state file is left alone.
JsonDump(t, disk_ok) ==
    /\ pc[t] = "dump"
    /\ LET began == frame[t].iter
           ended == SYSTEM_POSITIONS
       IN  IF Cardinality(DOMAIN ended) # Cardinality(DOMAIN began)
           THEN /\ \E partial \in {EmptyDict, Corrupt} :
                      tmp' = [tmp EXCEPT ![t] = partial]
                /\ Goto(t, "done")
           ELSE \E raises \in (IF frame[t].resized THEN BOOLEAN ELSE {FALSE}) :
                \E dumped \in DumpedOf(began, ended) :
                   IF ~raises /\ disk_ok /\ JsonSerializable(dumped)
                   THEN /\ tmp' = [tmp EXCEPT ![t] = dumped]
                        /\ Goto(t, "replace")
                   ELSE /\ \E partial \in {EmptyDict, Corrupt} :
                              tmp' = [tmp EXCEPT ![t] = partial]
                        /\ Goto(t, "done")
    /\ frame' = [frame EXCEPT ![t].iter = EmptyDict, ![t].resized = FALSE]
    /\ UNCHANGED <<SYSTEM_POSITIONS, STATE_FILE, NIFTY_SYNTH_CONTRACTS,
                   NIFTY_OPTION_METADATA, nreq, req, now,
                   rollover_results, calls, last_submit, resp, pre>>
    /\ Fixed

SaveDump(t) == \E disk_ok \in BOOLEAN : JsonDump(t, disk_ok)

\* save_system_positions, line 52: os.replace(temp_path, STATE_FILE).
OsReplace(t, ok) ==
    /\ pc[t] = "replace"
    /\ STATE_FILE' = os_replace(STATE_FILE, tmp[t], ok)
    /\ Goto(t, "done")
    /\ tmp' = [tmp EXCEPT ![t] = EmptyDict]
    /\ UNCHANGED <<SYSTEM_POSITIONS, NIFTY_SYNTH_CONTRACTS,
                   NIFTY_OPTION_METADATA, nreq, req, now,
                   frame, rollover_results, calls, last_submit, resp, pre>>
    /\ Fixed

SaveReplace(t) == \E ok \in BOOLEAN : OsReplace(t, ok)

\* The response has gone out; the thread waits for the next request.
Return(t) ==
    /\ pc[t] = "done"
    /\ Goto(t, "idle")
    /\ req' = [req EXCEPT ![t] = NoRequest]
    /\ now' = [now EXCEPT ![t] = NoClock]
    /\ frame' = [frame EXCEPT ![t] = NoFrame]
    /\ rollover_results' = [rollover_results EXCEPT ![t] = NotRun]
    /\ calls' = [calls EXCEPT ![t] = <<>>]
    /\ last_submit' = [last_submit EXCEPT ![t] = NoSubmit]
    /\ resp' = [resp EXCEPT ![t] = NoResponse]
    /\ pre' = [pre EXCEPT ![t] = EmptyDict]
    \* the temporary file is not read again
    /\ tmp' = [tmp EXCEPT ![t] = EmptyDict]
    /\ UNCHANGED <<SYSTEM_POSITIONS, STATE_FILE, NIFTY_SYNTH_CONTRACTS,
                   NIFTY_OPTION_METADATA, nreq>>
    /\ Fixed

\* reset_system_position (POST /admin/reset-system): the position of a
\* system is dropped from the registry, and the registry saved.
Reset(t) ==
    /\ pc[t] = "idle"
    /\ nreq < MaxRequests
    /\ \E system_id \in scope \cup {""} :
          /\ req' = [req EXCEPT ![t] =
                       [NoRequest EXCEPT !.signal = "RESET", !.system_id = system_id]]
          /\ resp' = [resp EXCEPT ![t] =
                        IF system_id = "" THEN Response(400, "error")
                        ELSE Response(200, "ok")]
          /\ IF system_id \in DOMAIN SYSTEM_POSITIONS
             THEN /\ SYSTEM_POSITIONS' = DictDel(SYSTEM_POSITIONS, system_id)
                  /\ Goto(t, "save")
             ELSE /\ UNCHANGED SYSTEM_POSITIONS
                  /\ Goto(t, "done")
    /\ frame' = Resized(frame, SYSTEM_POSITIONS, SYSTEM_POSITIONS')
    /\ nreq' = nreq + 1
    /\ pre' = [pre EXCEPT ![t] = SYSTEM_POSITIONS]
    /\ UNCHANGED <<STATE_FILE, NIFTY_SYNTH_CONTRACTS,
                   NIFTY_OPTION_METADATA, now, rollover_results,
                   calls, last_submit, tmp>>
    /\ Fixed

\* load_system_positions: json.load gives back what json.dump wrote, strings,
\* numbers and None; the contracts stay as serialize_contract left them.
\* The empty file stands for no file; a file that does not parse, or that
\* holds JSON without keys() (a list, a number), gives {}.
load_system_positions(file) ==
    IF file \in {Corrupt, NotAnObject} THEN EmptyDict ELSE file

\* The process stops, at any point, and is started again: the registry is
\* loaded from the state file (line 67), the contracts are gone (line 104),
\* the requests in progress are lost.
RestartServer ==
    /\ nreq < MaxRequests
    /\ \/ SYSTEM_POSITIONS # load_system_positions(STATE_FILE)
       \/ NIFTY_SYNTH_CONTRACTS # <<>>
       \/ NIFTY_OPTION_METADATA # {}
       \/ \E t \in Threads : pc[t] \notin {"idle", "off"}
    /\ SYSTEM_POSITIONS' = load_system_positions(STATE_FILE)
    /\ NIFTY_SYNTH_CONTRACTS' = <<>>
    /\ NIFTY_OPTION_METADATA' = {}
    /\ pc' = [t \in Threads |-> IF pc[t] = "off" THEN "off" ELSE "idle"]
    /\ req' = [t \in Threads |-> NoRequest]
    /\ now' = [t \in Threads |-> NoClock]
    /\ frame' = [t \in Threads |-> NoFrame]
    /\ rollover_results' = [t \in Threads |-> NotRun]
    /\ calls' = [t \in Threads |-> <<>>]
    /\ last_submit' = [t \in Threads |-> NoSubmit]
    /\ resp' = [t \in Threads |-> NoResponse]
    /\ pre' = [t \in Threads |-> EmptyDict]
    /\ tmp' = [t \in Threads |-> EmptyDict]
    /\ UNCHANGED <<STATE_FILE, nreq>>

Restart == RestartServer /\ Fixed

Next ==
    \/ \E t \in Threads :
          \/ Receive(t)
          \/ Rollover(t)
          \/ ExitBuyPut(t)
          \/ ExitSellCall(t)
          \/ EnterBuyCall(t)
          \/ EnterSellPut(t)
          \/ Dispatch(t)
          \/ FetchCsv(t)
          \/ BuildContracts(t)
          \/ LoadReturns(t)
          \/ RolloverOpenInfo(t)
          \/ DispatchChosen(t)
          \/ PickAtm(t)
          \/ SaveOpen(t)
          \/ SaveDump(t)
          \/ SaveReplace(t)
          \/ Return(t)
          \/ Reset(t)
    \/ Restart

\* The server handling one request at a time.
Spec == Init /\ [][Next]_vars

\* --------------------------------------------- two requests at a time

\* The server after start-up with two request threads (app.run serves each
\* request in a thread of its own).
ConcurrentInit ==
    /\ SYSTEM_POSITIONS = EmptyDict
    /\ STATE_FILE = EmptyDict
    /\ NIFTY_SYNTH_CONTRACTS = <<>>
    /\ NIFTY_OPTION_METADATA = {}
    /\ nreq = 0
    /\ pc = [t \in Threads |-> "idle"]
    /\ req = [t \in Threads |-> NoRequest]
    /\ now = [t \in Threads |-> NoClock]
    /\ frame = [t \in Threads |-> NoFrame]
    /\ rollover_results = [t \in Threads |-> NotRun]
    /\ calls = [t \in Threads |-> <<>>]
    /\ last_submit = [t \in Threads |-> NoSubmit]
    /\ resp = [t \in Threads |-> NoResponse]
    /\ pre = [t \in Threads |-> EmptyDict]
    /\ tmp = [t \in Threads |-> EmptyDict]
    /\ probe = NoProbe
    /\ scope = {"s1"}

\* A BUY request for a system comes in, in the morning (before the
\* rollover cutoff).
ReceiveBuy(t) ==
    /\ Receive(t)
    /\ req'[t].signal = "BUY"
    /\ req'[t].system_id \in scope
    /\ req'[t].underlying = "NIFTY"
    /\ BeforeCutoff(now'[t].minute)

\* Each thread handles one request and ends with its response.
ConcurrentNext ==
    \E t \in Threads :
       \/ ReceiveBuy(t)
       \/ Rollover(t)
       \/ EnterBuyCall(t)
       \/ EnterSellPut(t)
       \/ Dispatch(t)
       \/ FetchCsv(t)
       \/ BuildContracts(t)
       \/ LoadReturns(t)
       \/ DispatchChosen(t)
       \/ PickAtm(t)
       \/ SaveOpen(t)
       \/ SaveDump(t)
       \/ SaveReplace(t)

\* The server handling two BUY requests, each in its thread.
SpecConcurrent == ConcurrentInit /\ [][ConcurrentNext]_vars

\* ------------------------------------------- check_liquidity on its own

\* The quotes, quantities and thresholds check_liquidity is applied to.
ProbeBids ==
    { NoQuote, Quote(0, 200), Quote(0 - 5, 200), Quote(100, 200), Quote(100, 10) }
ProbeAsks ==
    { NoQuote, Quote(0, 200), Quote(0 - 5, 200), Quote(102, 200), Quote(110, 200),
      Quote(116, 200), Quote(110, 10) }
ProbeQtys == {75, 150}
ProbeMultipliers == {1, 2}
ProbeSpreads == {5, 15}

ServerVars == <<SYSTEM_POSITIONS, STATE_FILE, NIFTY_SYNTH_CONTRACTS,
                NIFTY_OPTION_METADATA, nreq, pc, req, now,
                frame, rollover_results, calls, last_submit, resp, pre, tmp, scope>>

LiquidityInit ==
    /\ ServerInit
    /\ scope = {}
    /\ probe \in { [fn |-> "check_liquidity", applied |-> FALSE,
                     book |-> [bid |-> bid, ask |-> ask], qty |-> qty,
                     minQtyMultiplier |-> m, maxSpreadPoints |-> sp,
                     out |-> [ok |-> FALSE, info |-> EmptyDict]] :
                     bid \in ProbeBids, ask \in ProbeAsks, qty \in ProbeQtys,
                     m \in ProbeMultipliers, sp \in ProbeSpreads }

\* check_liquidity is called on the book, lines 628-665.
ApplyCheckLiquidity ==
    /\ probe.fn = "check_liquidity"
    /\ ~probe.applied
    /\ probe' = [probe EXCEPT
                   !.applied = TRUE,
                   !.out = LiquidityCheck(probe.book, probe.qty,
                                          probe.minQtyMultiplier,
                                          probe.maxSpreadPoints)]
    /\ UNCHANGED ServerVars

LiquidityNext == ApplyCheckLiquidity

SpecLiquidity == LiquidityInit /\ [][LiquidityNext]_vars

\* ------------------------------------------------ the fill on its own

\* What get_order can answer for an order of qty: as PollAnswers, and also
\* the other final statuses, TRADED short of the quantity, and TRADED with
\* quantities that are not the caller's (an order record for 50, a payload
\* without quantities).
ProbeStatuses(qty) ==
    PollAnswers(qty) \cup
    { Status("REJECTED", 0, qty), Status("CANCELLED", 0, qty),
      Status("EXPIRED", 0, qty), Status("TRADED", 50, qty),
      Status("TRADED", 50, 50), Status("TRADED", 0, 0) }

FillInit ==
    /\ ServerInit
    /\ scope = {}
    /\ \E qty \in Qtys, ef \in BOOLEAN, oid \in {"None", "OID"} :
          \E ps \in UNION { [1..n -> ProbeStatuses(qty)] : n \in 0..MaxPolls } :
             probe = [fn |-> "fill_outcome", applied |-> FALSE, qty |-> qty,
                      ensure_fill |-> ef, order_id |-> oid, polls |-> ps,
                      out |-> [filled_completely |-> FALSE, final_status |-> NoStatus]]

\* place_order_with_checks has posted the order and fills in
\* filled_completely and final_status, lines 940-946.
ApplyFillOutcome ==
    /\ probe.fn = "fill_outcome"
    /\ ~probe.applied
    /\ probe' = [probe EXCEPT
                   !.applied = TRUE,
                   !.out = fill_outcome(probe.ensure_fill, probe.order_id, probe.polls)]
    /\ UNCHANGED ServerVars

FillNext == ApplyFillOutcome

SpecFill == FillInit /\ [][FillNext]_vars

\* ------------------------------------------------ check_margin on its own

\* What the margin calculator can answer: enough and not enough balance,
\* the balance exactly the margin, a shortfall reported although the balance
\* covers the margin, and the failures.
ProbeMarginReplies ==
    { MarginReply("ok", 100, 200, 0), MarginReply("ok", 200, 100, 100),
      MarginReply("ok", 100, 100, 0), MarginReply("ok", 100, 200, 50),
      MarginReply("ok", 200, 100, 0), MarginReply("ok", 100, 200, 0 - 50),
      MarginReply("ok", 0, 0, 0),
      MarginReply("http_error", 0, 0, 0), MarginReply("exception", 0, 0, 0),
      MarginReply("unparseable", 0, 0, 0) }

MarginInit ==
    /\ ServerInit
    /\ scope = {}
    /\ probe \in { [fn |-> "check_margin", applied |-> FALSE, enabled |-> en,
                     side |-> side, qty |-> qty, price |-> price, reply |-> r,
                     out |-> [ok |-> FALSE, info |-> "None"]] :
                     en \in BOOLEAN, side \in {"BUY", "SELL"}, qty \in ProbeQtys,
                     price \in {100, 110}, r \in ProbeMarginReplies }

\* check_margin is called, lines 672-717.
ApplyCheckMargin ==
    /\ probe.fn = "check_margin"
    /\ ~probe.applied
    /\ probe' = [probe EXCEPT !.applied = TRUE,
                               !.out = MarginCheck(probe.enabled, probe.reply)]
    /\ UNCHANGED ServerVars

MarginNext == ApplyCheckMargin

SpecMargin == MarginInit /\ [][MarginNext]_vars

\* ------------------------------- place_order_with_checks on its own

\* The worlds a call can meet when the margin check may be switched on.
ProbeSubmitEnvs(qty, ensure_fill) ==
    UNION { { [env EXCEPT !.margin = m] : m \in ProbeMarginReplies } :
              env \in SubmitEnvs(qty, ensure_fill) }

SubmitInit ==
    /\ ServerInit
    /\ scope = {}
    /\ \E side \in {"BUY", "SELL"}, qty \in Qtys, ef \in BOOLEAN, en \in BOOLEAN :
          \E env \in ProbeSubmitEnvs(qty, ef) :
             probe = [fn |-> "place_order_with_checks", applied |-> FALSE,
                      side |-> side, security_id |-> Sid("CE", 1, 26000),
                      qty |-> qty, ensure_fill |-> ef, margin_check_enabled |-> en,
                      env |-> env,
                      out |-> [raised |-> FALSE, result |-> NoResult,
                               posted |-> <<>>, checks |-> <<>>, margins |-> <<>>]]

\* place_order_with_checks is called, lines 862-948.
ApplyPlaceOrder ==
    /\ probe.fn = "place_order_with_checks"
    /\ ~probe.applied
    /\ probe' = [probe EXCEPT
                   !.applied = TRUE,
                   !.out = PlaceOrderWithChecks(probe.side, probe.security_id,
                                                probe.qty, probe.ensure_fill,
                                                probe.env, probe.margin_check_enabled)]
    /\ UNCHANGED ServerVars

SubmitNext == ApplyPlaceOrder

SpecSubmit == SubmitInit /\ [][SubmitNext]_vars

\* ---------------------------------------- wait_for_fill, poll by poll

\* A wait that never reaches its deadline.
StillWaitingAlways(elapsed) == TRUE

\* line 838: while time.time() < deadline; elapsed is the time since the
\* deadline was set, in seconds.
StillWaiting(elapsed) == elapsed < ORDER_FILL_MAX_WAIT

\* The clock is not read beyond this.
ClockCap == ORDER_FILL_MAX_WAIT + GET_ORDER_TIMEOUT + ORDER_FILL_POLL_INTERVAL

\* wait_for_fill is called for an order; tick is the number of sleeps so
\* far, modulo 2.
PollInit ==
    /\ ServerInit
    /\ scope = {}
    /\ probe \in { [fn |-> "wait_for_fill", order_id |-> oid, qty |-> qty,
                     elapsed |-> 0, tick |-> 0, last_status |-> NoStatus,
                     returned |-> FALSE, filled |-> FALSE] :
                     oid \in {"OID", "PAPER"}, qty \in ProbeQtys }

\* lines 832-833: a paper order counts as filled at once.
PollPaper ==
    /\ probe.fn = "wait_for_fill"
    /\ ~probe.returned
    /\ probe.order_id = "PAPER"
    /\ probe' = [probe EXCEPT !.returned = TRUE, !.filled = TRUE,
                               !.last_status = Status("PAPER", 0, 0)]
    /\ UNCHANGED ServerVars

\* lines 838-857: one turn of the loop.  get_order answers st after d
\* seconds (at once from the postback cache, at the latest at its timeout);
\* a final status ends the wait, anything else is followed by the sleep.
PollStep ==
    /\ probe.fn = "wait_for_fill"
    /\ ~probe.returned
    /\ probe.order_id # "PAPER"
    /\ StillWaiting(probe.elapsed)
    /\ \E st \in ProbeStatuses(probe.qty), d \in {0, GET_ORDER_TIMEOUT} :
          IF st.present /\ st.orderStatus \in TerminalStatuses
          THEN probe' = [probe EXCEPT
                           !.returned = TRUE,
                           !.filled = FillDecision(st),
                           !.last_status = st,
                           !.elapsed = Min(probe.elapsed + d, ClockCap)]
          ELSE probe' = [probe EXCEPT
                           !.last_status = IF st.present THEN st ELSE @,
                           !.tick = 1 - @,
                           !.elapsed = Min(probe.elapsed + d
                                             + ORDER_FILL_POLL_INTERVAL, ClockCap)]
    /\ UNCHANGED ServerVars

\* line 859: the deadline has passed.
PollExpire ==
    /\ probe.fn = "wait_for_fill"
    /\ ~probe.returned
    /\ probe.order_id # "PAPER"
    /\ ~StillWaiting(probe.elapsed)
    /\ probe' = [probe EXCEPT !.returned = TRUE, !.filled = FALSE]
    /\ UNCHANGED ServerVars

PollNext == PollPaper \/ PollStep \/ PollExpire

SpecPoll == PollInit /\ [][PollNext]_vars

\* The thread in wait_for_fill keeps running: get_order comes back within
\* its timeout and the sleep ends.
SpecPollFair ==
    SpecPoll /\ WF_vars(PollPaper) /\ WF_vars(PollStep) /\ WF_vars(PollExpire)

\* ------------------------------------------ a position stored and read

\* The contracts a position is recorded for: of either expiry, as built
\* from the master CSV and as ensure_contract_populated leaves them.
ProbeContracts ==
    { ShellContract(Expiries[i]) : i \in 1..Len(Expiries) } \cup
    { ensure_contract_populated(ShellContract(Expiries[i]),
                                AtmReply(FALSE, 26000)).contract :
        i \in 1..Len(Expiries) }

\* tv_webhook, lines 1303-1305: the position of system_id as the exit
\* branch reads it from the registry.
NotFound == [found |-> FALSE, contract |-> NoContract, qty |-> 0]
read_position(positions, system_id) ==
    IF system_id \notin DOMAIN positions THEN NotFound
    ELSE [found |-> TRUE,
          contract |-> deserialize_contract(positions[system_id].contract),
          qty |-> positions[system_id].qty]

NoRead == [done |-> FALSE, restarted |-> FALSE, out |-> NotFound]

\* The server has just started with no state file; a position is about to
\* be recorded for system_id.
StoreInit ==
    /\ ServerInit
    /\ scope = {}
    /\ probe \in { [fn |-> "store", phase |-> "new", restarted |-> FALSE,
                     system_id |-> id, contract |-> c, qty |-> q, read |-> NoRead] :
                     id \in {"s1", "s2"}, c \in ProbeContracts, q \in ProbeQtys }

\* tv_webhook, lines 1271-1276: the position is recorded and the registry
\* is about to be saved.
StorePut ==
    /\ probe.fn = "store"
    /\ probe.phase = "new"
    /\ pc["t1"] = "idle"
    /\ SYSTEM_POSITIONS' = DictPut(SYSTEM_POSITIONS, probe.system_id,
                                   RecordedPosition(probe.contract, probe.qty))
    /\ Goto("t1", "save")
    /\ probe' = [probe EXCEPT !.phase = "put"]
    /\ UNCHANGED <<STATE_FILE, NIFTY_SYNTH_CONTRACTS,
                   NIFTY_OPTION_METADATA, nreq, req, now, frame,
                   rollover_results, calls, last_submit, resp, pre, tmp, scope>>

\* The process is started again.
StoreRestart ==
    /\ probe.fn = "store"
    /\ RestartServer
    /\ probe' = [probe EXCEPT !.restarted = TRUE]
    /\ UNCHANGED scope

\* The position is read, at any time after it was recorded.
StoreRead ==
    /\ probe.fn = "store"
    /\ probe.phase = "put"
    /\ probe' = [probe EXCEPT !.read =
                    [done |-> TRUE, restarted |-> probe.restarted,
                     out |-> read_position(SYSTEM_POSITIONS, probe.system_id)]]
    /\ probe' # probe
    /\ UNCHANGED ServerVars

StoreNext ==
    \/ StorePut
    \/ SaveOpen("t1")
    \/ SaveDump("t1")
    \/ SaveReplace("t1")
    \/ StoreRestart
    \/ StoreRead

SpecStore == StoreInit /\ [][StoreNext]_vars

\* ------------------------------------- an exit and the broker's positions

\* The server has started with a state file that holds the position of one
\* system, in a populated contract; probe is what the broker holds in the
\* two legs of that contract, and what get_positions would answer.
ReconcileInit ==
    \E c \in { x \in ProbeContracts : IsPopulated(x) } :
       LET file == DictPut(EmptyDict, "s1", RecordedPosition(c, 75))
       IN  /\ SYSTEM_POSITIONS = load_system_positions(file)
           /\ STATE_FILE = file
           /\ NIFTY_SYNTH_CONTRACTS = <<>>
           /\ NIFTY_OPTION_METADATA = {}
           /\ nreq = 0
           /\ pc = [t \in Threads |-> IF t = "t1" THEN "idle" ELSE "off"]
           /\ req = [t \in Threads |-> NoRequest]
           /\ now = [t \in Threads |-> NoClock]
           /\ frame = [t \in Threads |-> NoFrame]
           /\ rollover_results = [t \in Threads |-> NotRun]
           /\ calls = [t \in Threads |-> <<>>]
           /\ last_submit = [t \in Threads |-> NoSubmit]
           /\ resp = [t \in Threads |-> NoResponse]
           /\ pre = [t \in Threads |-> EmptyDict]
           /\ tmp = [t \in Threads |-> EmptyDict]
           /\ probe \in { [fn |-> "get_positions", positions |-> ps] :
                            ps \in PositionReplies(c) }
           /\ scope = {"s1"}

\* A SELL or EXIT request for a system comes in, in the morning (before the
\* rollover cutoff).
ReceiveExit(t) ==
    /\ Receive(t)
    /\ req'[t].signal \in {"SELL", "EXIT"}
    /\ req'[t].system_id \in scope
    /\ req'[t].underlying = "NIFTY"
    /\ BeforeCutoff(now'[t].minute)

\* The request ends with its response.
ReconcileNext ==
    \E t \in Threads :
       \/ ReceiveExit(t)
       \/ Rollover(t)
       \/ Dispatch(t)
       \/ ExitBuyPut(t)
       \/ ExitSellCall(t)
       \/ SaveOpen(t)
       \/ SaveDump(t)
       \/ SaveReplace(t)

\* The server handling one SELL or EXIT request for a position it holds;
\* the broker's holdings are those of the time the request comes.
SpecReconcile == ReconcileInit /\ [][ReconcileNext]_vars

\* ------------------------------------------- a BUY and then a SELL

\* The SELL or EXIT request comes when the BUY request has been answered.
ReceiveExitAfterBuy ==
    /\ pc["t1"] = "done"
    /\ ReceiveExit("t2")

\* Thread t1 handles a BUY request, thread t2 a SELL or EXIT request that
\* comes after it; each ends with its response.
EntryExitNext ==
    \/ ReceiveBuy("t1")
    \/ ReceiveExitAfterBuy
    \/ \E t \in Threads :
          \/ Rollover(t)
          \/ Dispatch(t)
          \/ FetchCsv(t)
          \/ BuildContracts(t)
          \/ LoadReturns(t)
          \/ DispatchChosen(t)
          \/ PickAtm(t)
          \/ EnterBuyCall(t)
          \/ EnterSellPut(t)
          \/ ExitBuyPut(t)
          \/ ExitSellCall(t)
          \/ SaveOpen(t)
          \/ SaveDump(t)
          \/ SaveReplace(t)

SpecEntryExit == ConcurrentInit /\ [][EntryExitNext]_vars

\* ------------------------------------------ two exits of one position

\* The server holds the position of one system, in a populated contract,
\* and has two request threads.
ExitRaceInit ==
    \E c \in { x \in ProbeContracts : IsPopulated(x) } :
       LET file == DictPut(EmptyDict, "s1", RecordedPosition(c, 75))
       IN  /\ SYSTEM_POSITIONS = load_system_positions(file)
           /\ STATE_FILE = file
           /\ NIFTY_SYNTH_CONTRACTS = <<>>
           /\ NIFTY_OPTION_METADATA = {}
           /\ nreq = 0
           /\ pc = [t \in Threads |-> "idle"]
           /\ req = [t \in Threads |-> NoRequest]
           /\ now = [t \in Threads |-> NoClock]
           /\ frame = [t \in Threads |-> NoFrame]
           /\ rollover_results = [t \in Threads |-> NotRun]
           /\ calls = [t \in Threads |-> <<>>]
           /\ last_submit = [t \in Threads |-> NoSubmit]
           /\ resp = [t \in Threads |-> NoResponse]
           /\ pre = [t \in Threads |-> EmptyDict]
           /\ tmp = [t \in Threads |-> EmptyDict]
           /\ probe = NoProbe
           /\ scope = {"s1"}

\* Each thread handles one SELL or EXIT request and ends with its response.
ExitRaceNext ==
    \E t \in Threads :
       \/ ReceiveExit(t)
       \/ Rollover(t)
       \/ Dispatch(t)
       \/ ExitBuyPut(t)
       \/ ExitSellCall(t)
       \/ SaveOpen(t)
       \/ SaveDump(t)
       \/ SaveReplace(t)

\* The server handling two SELL or EXIT requests for the position it holds.
SpecExitRace == ExitRaceInit /\ [][ExitRaceNext]_vars

\* ------------------------------------- two systems, a request for each

\* The server after start-up, serving two systems.
TwoSystemsInit ==
    /\ SYSTEM_POSITIONS = EmptyDict
    /\ STATE_FILE = EmptyDict
    /\ NIFTY_SYNTH_CONTRACTS = <<>>
    /\ NIFTY_OPTION_METADATA = {}
    /\ nreq = 0
    /\ pc = [t \in Threads |-> "idle"]
    /\ req = [t \in Threads |-> NoRequest]
    /\ now = [t \in Threads |-> NoClock]
    /\ frame = [t \in Threads |-> NoFrame]
    /\ rollover_results = [t \in Threads |-> NotRun]
    /\ calls = [t \in Threads |-> <<>>]
    /\ last_submit = [t \in Threads |-> NoSubmit]
    /\ resp = [t \in Threads |-> NoResponse]
    /\ pre = [t \in Threads |-> EmptyDict]
    /\ tmp = [t \in Threads |-> EmptyDict]
    /\ probe = NoProbe
    /\ scope = {"s1", "s2"}

\* A BUY request for the given system comes in, in the morning.
ReceiveBuyFor(t, system_id) ==
    /\ ReceiveBuy(t)
    /\ req'[t].system_id = system_id

\* save_system_positions on a disk that does not fail: json.dump fails only
\* when the registry changes under it, os.replace puts the file in place.
SaveDumpDiskOk(t) == JsonDump(t, TRUE)
SaveReplaceDiskOk(t) == OsReplace(t, TRUE)

\* One thread handles a request for s1, the other a request for s2.
TwoSystemsNext ==
    \/ ReceiveBuyFor("t1", "s1")
    \/ ReceiveBuyFor("t2", "s2")
    \/ \E t \in Threads :
          \/ Rollover(t)
          \/ EnterBuyCall(t)
          \/ EnterSellPut(t)
          \/ Dispatch(t)
          \/ FetchCsv(t)
          \/ BuildContracts(t)
          \/ LoadReturns(t)
          \/ DispatchChosen(t)
          \/ PickAtm(t)
          \/ SaveOpen(t)
          \/ SaveDumpDiskOk(t)
          \/ SaveReplaceDiskOk(t)

\* The server handling a BUY for each of two systems at the same time.
SpecTwoSystems == TwoSystemsInit /\ [][TwoSystemsNext]_vars

\* ------------------------------------------- the date and the time gate

\* Every minute of the days 0..MaxDay, UTC.
ProbeInstants == 0 .. ((MaxDay + 1) * MINUTES_PER_DAY - 1)

ClockInit ==
    /\ ServerInit
    /\ scope = {}
    /\ probe \in { [fn |-> "rollover_gate", applied |-> FALSE, now_utc |-> i,
                     today |-> 0, gate_passed |-> FALSE] : i \in ProbeInstants }

\* tv_webhook takes now_utc and today (lines 1213-1214) and
\* rollover_synthetic_if_needed tests the time (lines 1098-1104).
ApplyRolloverGate ==
    /\ probe.fn = "rollover_gate"
    /\ ~probe.applied
    /\ probe' = [probe EXCEPT
                    !.applied = TRUE,
                    !.today = UtcDate(probe.now_utc),
                    !.gate_passed = ~BeforeCutoff(UtcTimeOfDay(probe.now_utc))]
    /\ UNCHANGED ServerVars

ClockNext == ApplyRolloverGate

SpecClock == ClockInit /\ [][ClockNext]_vars

\* ----------------------------------------------------------- start-up

\* The state files the server can find when it starts: none, one that is
\* cut short, one that is not a JSON object, and the registries of up to two
\* systems.
ProbeRecords ==
    { RecordedPosition(c, q) : c \in ProbeContracts, q \in ProbeQtys }
ProbeFiles ==
    { EmptyDict, Corrupt, NotAnObject }
    \cup { DictPut(EmptyDict, "s1", r) : r \in ProbeRecords }
    \cup { DictPut(DictPut(EmptyDict, "s1", r), "s2", r2) :
             r \in ProbeRecords, r2 \in ProbeRecords }

\* The module is about to be loaded: nothing is in memory yet.
StartupInit ==
    /\ SYSTEM_POSITIONS = EmptyDict
    /\ STATE_FILE \in ProbeFiles
    /\ NIFTY_SYNTH_CONTRACTS = <<>>
    /\ NIFTY_OPTION_METADATA = {}
    /\ nreq = 0
    /\ pc = [t \in Threads |-> "off"]
    /\ req = [t \in Threads |-> NoRequest]
    /\ now = [t \in Threads |-> NoClock]
    /\ frame = [t \in Threads |-> NoFrame]
    /\ rollover_results = [t \in Threads |-> NotRun]
    /\ calls = [t \in Threads |-> <<>>]
    /\ last_submit = [t \in Threads |-> NoSubmit]
    /\ resp = [t \in Threads |-> NoResponse]
    /\ pre = [t \in Threads |-> EmptyDict]
    /\ tmp = [t \in Threads |-> EmptyDict]
    /\ probe = [fn |-> "load_system_positions", applied |-> FALSE]
    /\ scope = {}

\* line 67: SYSTEM_POSITIONS = load_system_positions(); the server then
\* waits for requests.
Startup ==
    /\ probe.fn = "load_system_positions"
    /\ ~probe.applied
    /\ SYSTEM_POSITIONS' = load_system_positions(STATE_FILE)
    /\ pc' = [pc EXCEPT !["t1"] = "idle"]
    /\ probe' = [probe EXCEPT !.applied = TRUE]
    /\ UNCHANGED <<STATE_FILE, NIFTY_SYNTH_CONTRACTS,
                   NIFTY_OPTION_METADATA, nreq, req, now, frame,
                   rollover_results, calls, last_submit, resp, pre, tmp, scope>>

StartupNext == Startup

SpecStartup == StartupInit /\ [][StartupNext]_vars

\* ---------------------------------------------------------------- claims

\* A call of place_order_with_checks, as logged, that came back placed and
\* completely filled.
CameBackFilled(c) ==
    /\ ~c.raised
    /\ Get(c.result, "placed", FALSE)
    /\ Get(c.result, "filled_completely", FALSE)

\* C1: within enter_synthetic_long the SELL on the put leg is attempted only
\* directly after the BUY on the call leg of the same contract came back with
\* filled_completely = true, which takes an order id and a final status of
\* TRADED; after a BUY CALL that was rejected by a gate, not placed, without
\* order id, ended otherwise or timed out, nothing more is done for that entry.
C1_PutLegOnlyAfterCallFilled ==
    \A t \in Threads :
        /\ \A i \in DOMAIN calls[t] :
              LET c == calls[t][i]
              IN  (c.op = "enter" /\ c.side = "SELL") =>
                     /\ i > 1
                     /\ calls[t][i - 1].op = "enter"
                     /\ calls[t][i - 1].side = "BUY"
                     /\ calls[t][i - 1].ctx = c.ctx
                     /\ calls[t][i - 1].ensure_fill
                     /\ calls[t][i - 1].posted
                     /\ calls[t][i - 1].security_id.opt = "CE"
                     /\ c.security_id.opt = "PE"
                     /\ calls[t][i - 1].security_id.expiry = c.security_id.expiry
                     /\ CameBackFilled(calls[t][i - 1])
        /\ \A i \in DOMAIN calls[t] :
              LET b == calls[t][i]
              IN  (b.op = "enter" /\ b.side = "BUY" /\ ~CameBackFilled(b)) =>
                     \A j \in DOMAIN calls[t] :
                        j > i => ~(calls[t][j].op = "enter" /\ calls[t][j].ctx = b.ctx)
        /\ pc[t] = "enter_put" =>
              /\ last_submit[t].side = "BUY"
              /\ last_submit[t].posted # <<>>
              /\ last_submit[t].result.order_id # "None"
              /\ last_submit[t].result.liquidity_ok
              /\ last_submit[t].result.margin_ok
              /\ last_submit[t].result.final_status.orderStatus = "TRADED"
              /\ last_submit[t].result.filled_completely

\* An entry has sent its SELL PUT to the broker.
C1_Witness ==
    \E t \in Threads : \E i \in DOMAIN calls[t] :
        /\ calls[t][i].op = "enter"
        /\ calls[t][i].side = "SELL"
        /\ calls[t][i].posted

\* C2: within exit_synthetic_long the BUY on the put leg is attempted before
\* the SELL on the call leg, and the SELL CALL is attempted only directly after
\* the BUY PUT of the same contract came back placed and completely filled.
C2_CallLegClosedOnlyAfterPutClosed ==
    \A t \in Threads :
        /\ \A i \in DOMAIN calls[t] :
              LET c == calls[t][i]
              IN  (c.op = "exit" /\ c.side = "SELL") =>
                     /\ i > 1
                     /\ calls[t][i - 1].op = "exit"
                     /\ calls[t][i - 1].side = "BUY"
                     /\ calls[t][i - 1].ctx = c.ctx
                     /\ calls[t][i - 1].security_id.opt = "PE"
                     /\ c.security_id.opt = "CE"
                     /\ calls[t][i - 1].security_id.expiry = c.security_id.expiry
                     /\ CameBackFilled(calls[t][i - 1])
        /\ \A i \in DOMAIN calls[t] :
              LET b == calls[t][i]
              IN  (b.op = "exit" /\ b.side = "BUY" /\ ~CameBackFilled(b)) =>
                     \A j \in DOMAIN calls[t] :
                        j > i => ~(calls[t][j].op = "exit" /\ calls[t][j].ctx = b.ctx)

\* An exit has sent its SELL CALL to the broker.
C2_Witness ==
    \E t \in Threads : \E i \in DOMAIN calls[t] :
        /\ calls[t][i].op = "exit"
        /\ calls[t][i].side = "SELL"
        /\ calls[t][i].posted

\* The request of thread t is a BUY for a system that held a position when
\* it came, and its handling has ended.
DuplicateBuyHandled(t) ==
    /\ pc[t] = "done"
    /\ req[t].signal = "BUY"
    /\ req[t].system_id \in DOMAIN pre[t]

\* Nothing was entered for the signal, and the registry is as it was.
NothingEntered(t) ==
    /\ \A i \in DOMAIN calls[t] :
          ~(calls[t][i].op = "enter" /\ calls[t][i].ctx = "signal")
    /\ SYSTEM_POSITIONS = pre[t]

\* C3, as stated: a BUY for a system that already holds a position returns
\* "ignored", places no entry order and leaves the stored position as it was.
C3_DuplicateBuyIgnored ==
    \A t \in Threads :
        DuplicateBuyHandled(t) =>
            /\ resp[t] = Response(200, "ignored")
            /\ NothingEntered(t)

\* C3, amended: such a BUY returns "ignored" unless the handler ends before
\* its duplicate test: with a 400 answer, status "error", when the underlying
\* of the request is not NIFTY (line 1216), or with a 500 answer when no
\* contract could be resolved (status "error", no contracts are loaded) or
\* an exception left the rollover or the choice of strikes; in every case
\* no entry order is placed for the signal and the registry is as it was.
C3_DuplicateBuyNeverEnters ==
    \A t \in Threads :
        DuplicateBuyHandled(t) =>
            /\ \/ resp[t] = Response(200, "ignored") /\ req[t].underlying = "NIFTY"
               \/ resp[t] = Response(400, "error") /\ req[t].underlying # "NIFTY"
               \/ /\ resp[t] = Response(500, "error")
                  /\ req[t].underlying = "NIFTY"
                  /\ NIFTY_SYNTH_CONTRACTS = <<>>
               \/ resp[t] = Response(500, "exception") /\ req[t].underlying = "NIFTY"
            /\ NothingEntered(t)

\* A BUY for a system holding a position has been answered "ignored".
C3_Witness ==
    \E t \in Threads :
        /\ DuplicateBuyHandled(t)
        /\ resp[t].status = "ignored"
\* What enter_synthetic_long returned to the caller named by ctx, NoReturn
\* when it has not returned.
EnterReturned(t, ctx) ==
    IF ctx = "signal" THEN frame[t].enter_res
    ELSE Get(rollover_results[t], "enter_result", NoReturn)

\* C4: whenever the BUY on the call leg of an entry does not come back placed
\* and completely filled (gate rejection, placement failure, a final status
\* other than TRADED, no TRADED within the wait), enter_synthetic_long returns
\* entered = false with the reason of the unfilled long leg, and a BUY signal
\* leaves the registry without a new entry.
C4_UnfilledLongLegReported ==
    \A t \in Threads : \A i \in DOMAIN calls[t] :
        LET b == calls[t][i]
        IN  (b.op = "enter" /\ b.side = "BUY" /\ ~CameBackFilled(b)) =>
               /\ Get(EnterReturned(t, b.ctx), "entered", TRUE) = FALSE
               /\ Get(EnterReturned(t, b.ctx), "reason", "None")
                     = "buy_call_failed_or_not_filled"
               /\ b.ctx = "signal" => SYSTEM_POSITIONS = pre[t]
\* C5: when the long leg of an entry made for a BUY signal is filled and the
\* SELL on the put leg is not placed, enter_synthetic_long returns entered =
\* true with partial = true and the registry records the position with status
\* PARTIAL_OPEN, no put leg and a warning; when the SELL PUT is placed the
\* recorded status is OPEN.
C5_PartialEntryRecorded ==
    \A t \in Threads : \A i \in DOMAIN calls[t] :
        LET c == calls[t][i]
            r == frame[t].enter_res
            id == req[t].system_id
            failed == c.raised \/ ~Get(c.result, "placed", FALSE)
            recorded == Get(SYSTEM_POSITIONS, id, EmptyDict)
        IN  (c.op = "enter" /\ c.side = "SELL" /\ c.ctx = "signal"
               /\ pc[t] \in {"save", "dump", "replace", "done"}) =>
               /\ Get(r, "entered", FALSE)
               /\ id \in DOMAIN SYSTEM_POSITIONS
               /\ failed =>
                     /\ Get(r, "partial", FALSE)
                     /\ Get(recorded, "status", "None") = "PARTIAL_OPEN"
                     /\ Get(recorded, "warning", FALSE)
                     /\ recorded.contract.put_security_id = NoSid
               /\ ~failed => Get(recorded, "status", "None") = "OPEN"

\* enter_synthetic_long, called from ctx, is over: it returned or an
\* exception left it.
EnterEnded(t, ctx) ==
    IF ctx = "signal" THEN pc[t] \in {"save", "dump", "replace", "done"}
    ELSE pc[t] = "dispatch" \/ (pc[t] = "done" /\ rollover_results[t] = NotRun)

\* C6: after an entry whose BUY CALL came back completely filled, the
\* registry holds a position in the contract entered once the entry is over,
\* whatever became of the SELL PUT, for an entry made for a BUY signal and
\* for one made by the rollover.
C6_FilledEntryRecorded ==
    \A t \in Threads : \A i \in DOMAIN calls[t] :
        LET b == calls[t][i]
        IN  (b.op = "enter" /\ b.side = "BUY" /\ CameBackFilled(b)
               /\ EnterEnded(t, b.ctx)) =>
               \E id \in DOMAIN SYSTEM_POSITIONS :
                  SYSTEM_POSITIONS[id].contract.expiry.day = b.security_id.expiry
\* C7: in a rollover the exit of the old contract comes before the entry of
\* the new one, and no order for the new contract goes to the broker unless
\* the exit of the old one succeeded: its BUY PUT came back placed and
\* completely filled and its SELL CALL was placed.
C7_NoEntryAfterFailedExit ==
    \A t \in Threads : \A i \in DOMAIN calls[t] :
        (calls[t][i].ctx = "rollover" /\ calls[t][i].op = "enter"
           /\ calls[t][i].posted) =>
            \E j, k \in DOMAIN calls[t] :
                /\ j < k /\ k < i
                /\ calls[t][j].ctx = "rollover" /\ calls[t][j].op = "exit"
                /\ calls[t][j].side = "BUY"
                /\ CameBackFilled(calls[t][j])
                /\ calls[t][k].ctx = "rollover" /\ calls[t][k].op = "exit"
                /\ calls[t][k].side = "SELL"
                /\ ~calls[t][k].raised
                /\ Get(calls[t][k].result, "placed", FALSE)
                /\ calls[t][j].security_id.expiry < calls[t][i].security_id.expiry
\* The request of thread t came at a time of day that is before 12:30 at
\* UTC+5:30; now is kept until the signal is acted on.
CameBeforeCutoff(t) ==
    /\ now[t] # NoClock
    /\ (now[t].minute + 330) % 1440 < 750

\* C8: at any time of day before 12:30 at UTC+5:30 the rollover run returns
\* None, makes no call of place_order_with_checks and leaves the registry as
\* it was, whatever is stored and whatever the broker holds.
C8_NoRolloverBeforeCutoff ==
    \A t \in Threads :
        CameBeforeCutoff(t) =>
            /\ pc[t] \in {"rollover", "dispatch", "csv", "shells", "loaded", "done"}
            \* the master CSV is asked for by get_contract_for_new_long
            /\ pc[t] \in {"csv", "shells", "loaded"} => frame[t].at = "dispatch"
            /\ pc[t] \in {"dispatch", "csv", "shells", "loaded"} =>
                  rollover_results[t] = NoneResult
            /\ pc[t] = "done" => rollover_results[t] = NotRun
            /\ calls[t] = <<>>
            /\ SYSTEM_POSITIONS = pre[t]

\* A rollover run has returned, before the cutoff, on the expiry day of the
\* near contract, with a position stored.
C8_Witness ==
    \E t \in Threads :
        /\ CameBeforeCutoff(t)
        /\ pc[t] = "dispatch"
        /\ now[t].today = Expiries[1]
        /\ SYSTEM_POSITIONS # EmptyDict

\* A liquidity check rejected for want of quantity or for the spread.
SoftRejection(c) ==
    /\ ~c.ok
    /\ "reason" \notin DOMAIN c.info
    /\ ~c.info.ok_qty \/ ~c.info.ok_spread

\* A liquidity check rejected for a missing or invalid quote.
HardRejection(c) ==
    /\ ~c.ok
    /\ Get(c.info, "reason", "None") \in {"missing_bid_or_ask", "invalid_bid_or_ask"}

\* C9: a call of place_order_with_checks makes one liquidity check or two;
\* it makes the second if and only if the first rejected for quantity or
\* spread, never after a missing or invalid quote; the order goes to the
\* broker only if the last check made accepted, and otherwise the result is
\* placed = false with nothing sent.
C9_LiquidityRetriedOnce ==
    \A t \in Threads :
        LET cs == last_submit[t].checks
            n == Len(cs)
        IN  last_submit[t].side # "None" =>
               /\ n \in {1, 2}
               /\ n = 2 <=> SoftRejection(cs[1])
               /\ HardRejection(cs[1]) => n = 1
               /\ last_submit[t].posted # <<>> => cs[n].ok
               /\ ~cs[n].ok =>
                     /\ last_submit[t].posted = <<>>
                     /\ ~last_submit[t].raised
                     /\ last_submit[t].result.placed = FALSE
                     /\ last_submit[t].result.liquidity_ok = FALSE

\* A call whose first check rejected for a soft reason, whose second check
\* accepted, and whose order went to the broker.
C9_Witness ==
    \E t \in Threads :
        /\ Len(last_submit[t].checks) = 2
        /\ SoftRejection(last_submit[t].checks[1])
        /\ last_submit[t].checks[2].ok
        /\ last_submit[t].posted # <<>>

\* C10: check_liquidity answers ok = false with the reason of a missing or
\* invalid quote whenever the bid or the ask is absent or a price is <= 0,
\* for every quantity and every value of the two thresholds.
C10_BadQuoteRejected ==
    (/\ probe.fn = "check_liquidity"
     /\ probe.applied
     /\ \/ ~probe.book.bid.present
        \/ ~probe.book.ask.present
        \/ probe.book.bid.price <= 0
        \/ probe.book.ask.price <= 0) =>
        /\ ~probe.out.ok
        /\ Get(probe.out.info, "reason", "None")
              \in {"missing_bid_or_ask", "invalid_bid_or_ask"}

\* check_liquidity has been applied to a book with a bid of 100 for 200 and
\* an ask at price 0.
C10_Witness ==
    /\ probe.fn = "check_liquidity"
    /\ probe.applied
    /\ probe.book.bid = Quote(100, 200)
    /\ probe.book.ask = Quote(0, 200)
    /\ ~probe.out.ok
\* C11: for a book with both sides present and both prices > 0,
\* check_liquidity answers ok = true if and only if the quantity on the bid and
\* on the ask is at least qty * minQtyMultiplier and ask price - bid price is
\* at most maxSpreadPoints; bid 100 for 200, ask 102 for 200, qty 75, spread
\* limit 5 and multiplier 1 is accepted.
C11_AcceptsIffDepthAndSpread ==
    (/\ probe.fn = "check_liquidity"
     /\ probe.applied
     /\ probe.book.bid.present /\ probe.book.ask.present
     /\ probe.book.bid.price > 0 /\ probe.book.ask.price > 0) =>
        /\ probe.out.ok <=>
              /\ probe.book.bid.qty >= probe.qty * probe.minQtyMultiplier
              /\ probe.book.ask.qty >= probe.qty * probe.minQtyMultiplier
              /\ probe.book.ask.price - probe.book.bid.price <= probe.maxSpreadPoints
        /\ (/\ probe.book = [bid |-> Quote(100, 200), ask |-> Quote(102, 200)]
            /\ probe.qty = 75
            /\ probe.maxSpreadPoints = 5
            /\ probe.minQtyMultiplier = 1) => probe.out.ok

\* check_liquidity has accepted bid 100 for 200, ask 102 for 200, for 75 with
\* spread limit 5 and multiplier 1.
C11_Witness ==
    /\ probe.fn = "check_liquidity"
    /\ probe.applied
    /\ probe.book = [bid |-> Quote(100, 200), ask |-> Quote(102, 200)]
    /\ probe.qty = 75
    /\ probe.maxSpreadPoints = 5
    /\ probe.minQtyMultiplier = 1
    /\ probe.out.ok
\* The first answer of the wait window that is there and is not pending;
\* 0 when the window runs out without one.
FirstFinal(polls) ==
    LET final == { i \in DOMAIN polls :
                     polls[i].present /\ polls[i].orderStatus \in TerminalStatuses }
    IN  IF final = {} THEN 0 ELSE CHOOSE i \in final : \A j \in final : i <= j

\* C12: with ensure_fill, filled_completely is true only when the order has
\* an id, the status polled is TRADED and the filled quantity is the quantity
\* the caller asked for; another final status, no order id or a wait window
\* that runs out give filled_completely = false.
C12_FilledOnlyWhenTradedInFull ==
    (probe.fn = "fill_outcome" /\ probe.applied /\ probe.ensure_fill) =>
        LET k == FirstFinal(probe.polls)
        IN  /\ probe.out.filled_completely =>
                  /\ probe.order_id # "None"
                  /\ k # 0
                  /\ probe.polls[k].orderStatus = "TRADED"
                  /\ probe.polls[k].filledQty = probe.qty
            /\ (\/ probe.order_id = "None"
                \/ k = 0
                \/ probe.polls[k].orderStatus # "TRADED") =>
                  ~probe.out.filled_completely
\* C13: a position recorded under a system id is read back equal in every
\* field, the expiry a date again: at once, and after a restart that loads
\* the registry from the state file the position was saved to.
C13_StoredPositionReadBack ==
    (probe.fn = "store" /\ probe.read.done
       /\ (probe.read.restarted => probe.system_id \in DOMAIN STATE_FILE))
    => probe.read.out = [found |-> TRUE, contract |-> probe.contract,
                         qty |-> probe.qty]

C13_Witness ==
    /\ probe.fn = "store"
    /\ probe.read.done
    /\ probe.read.restarted
    /\ probe.read.out.found
    /\ probe.read.out.contract.expiry = Date(Expiries[2])
    /\ IsPopulated(probe.read.out.contract)
    /\ SYSTEM_POSITIONS[probe.system_id].contract.expiry = IsoString(Expiries[2])

\* C14: whatever happens while the registry is saved (the temporary file
\* cannot be created or written, the rename fails, the process stops), the
\* state file is left as it was or becomes the whole registry being saved,
\* and is never a document cut short.
C14_StateFileOldOrNew ==
    [][\/ STATE_FILE' = STATE_FILE
       \/ /\ \E t \in Threads : pc[t] = "replace"
          /\ STATE_FILE' = SYSTEM_POSITIONS
          /\ STATE_FILE' # Corrupt]_vars

\* A reset dropped the position, the save failed, and the file still holds
\* the position saved before.
C14_Witness ==
    \E t \in Threads :
       /\ pc[t] = "done"
       /\ req[t].signal = "RESET"
       /\ SYSTEM_POSITIONS = EmptyDict
       /\ STATE_FILE # EmptyDict
       /\ STATE_FILE = pre[t]

\* The BUY request of thread t has found no position for its system and has
\* not yet recorded one (lines 1259-1270).
BetweenCheckAndWrite(t) ==
    /\ req[t].signal = "BUY"
    /\ frame[t].ctx = "signal"
    /\ pc[t] \in {"enter_call", "enter_put"}

\* The BUY request of thread t sent a BUY CALL order to the broker and
\* recorded a position.
BoughtAndRecorded(t) ==
    /\ req[t].signal = "BUY"
    /\ Get(frame[t].enter_res, "entered", FALSE)
    /\ \E i \in DOMAIN calls[t] :
          /\ calls[t][i].ctx = "signal" /\ calls[t][i].op = "enter"
          /\ calls[t][i].side = "BUY" /\ calls[t][i].posted

\* C15: of two BUY requests for the same system handled at the same time,
\* only one at a time is between the test for an existing position and the
\* recording of the new one, and at most one of them sends a BUY CALL order
\* and records a position.
C15_OneBuyerPerSystem ==
    \A t, u \in Threads :
       (t # u /\ req[t].signal = "BUY" /\ req[u].signal = "BUY"
          /\ req[t].system_id = req[u].system_id) =>
          /\ ~(BetweenCheckAndWrite(t) /\ BetweenCheckAndWrite(u))
          /\ ~(BoughtAndRecorded(t) /\ BoughtAndRecorded(u))

\* The SELL or EXIT request of thread t, for a system that held a position,
\* has been acted on.
ExitSignalHandled(t) ==
    /\ req[t].signal \in {"SELL", "EXIT"}
    /\ req[t].system_id \in DOMAIN pre[t]
    /\ pc[t] \in {"save", "dump", "replace", "done"}
    /\ resp[t].status \in {"ok", "failed"}

\* The exit made for the signal of thread t sold the call, waiting for the
\* fill, and the order came back placed and completely filled.
CallLegClosed(t) ==
    \E i \in DOMAIN calls[t] :
       /\ calls[t][i].ctx = "signal" /\ calls[t][i].op = "exit"
       /\ calls[t][i].side = "SELL"
       /\ calls[t][i].ensure_fill
       /\ CameBackFilled(calls[t][i])

\* C16: a SELL or EXIT signal takes the position out of the registry only
\* when the SELL CALL of the exit, made waiting for the fill, came back placed
\* and completely filled; otherwise the answer is "failed" and the position
\* is still in the registry.
C16_PositionKeptUnlessCallLegClosed ==
    \A t \in Threads :
       (ExitSignalHandled(t) /\ ~CallLegClosed(t)) =>
          /\ resp[t].status = "failed"
          /\ req[t].system_id \in DOMAIN SYSTEM_POSITIONS

\* C17: when the BUY PUT of the exit made for a SELL or EXIT signal does not
\* come back placed and completely filled, the request ends there: the
\* registry and the state file are as they were, nothing is saved, and the
\* registry still gives the contract and quantity this exit was called with.
C17_FailedPutCloseKeepsPosition ==
    [][\A t \in Threads :
         (/\ pc[t] = "exit_put" /\ frame[t].ctx = "signal"
          /\ Len(calls'[t]) = Len(calls[t]) + 1
          /\ ~CameBackFilled(calls'[t][Len(calls'[t])])) =>
            /\ SYSTEM_POSITIONS' = SYSTEM_POSITIONS
            /\ SYSTEM_POSITIONS' = pre[t]
            /\ STATE_FILE' = STATE_FILE
            /\ pc'[t] = "done"
            /\ read_position(SYSTEM_POSITIONS', req[t].system_id) =
                  [found |-> TRUE, contract |-> frame[t].contract,
                   qty |-> frame[t].qty]]_vars

\* An exit stopped at its BUY PUT, which went to the broker and did not
\* fill; the position is in the registry and in the file.
C17_Witness ==
    \E t \in Threads :
       /\ pc[t] = "done"
       /\ req[t].signal \in {"SELL", "EXIT"}
       /\ calls[t] # <<>>
       /\ frame[t].exit_res = [exited |-> FALSE,
                               reason |-> "buy_put_failed_or_not_filled",
                               buy_put |-> calls[t][Len(calls[t])].result]
       /\ calls[t][Len(calls[t])].posted
       /\ req[t].system_id \in DOMAIN SYSTEM_POSITIONS
       /\ STATE_FILE = SYSTEM_POSITIONS

\* C18: while a SELL or EXIT request for a system without a position in the
\* registry is handled, at whatever time it comes and whatever the broker
\* holds, no order goes to the broker and the registry stays as it was.
C18_ExitWithoutPositionDoesNothing ==
    \A t \in Threads :
       (req[t].signal \in {"SELL", "EXIT"}
          /\ req[t].system_id \notin DOMAIN pre[t]) =>
          /\ \A i \in DOMAIN calls[t] : ~calls[t][i].posted
          /\ SYSTEM_POSITIONS = pre[t]

\* The rollover run for the request of thread t has just returned, having
\* exited the old contract and entered the new one.
JustRolled(t) ==
    /\ pc[t] = "dispatch"
    /\ Get(rollover_results[t], "rolled", FALSE)
    \* all four orders were placed, the two waited for were filled
    /\ Get(rollover_results[t].exit_result.buy_put, "filled_completely", FALSE)
    /\ Get(rollover_results[t].exit_result.sell_call, "placed", FALSE)
    /\ Get(rollover_results[t].enter_result.buy_call, "filled_completely", FALSE)
    /\ Get(rollover_results[t].enter_result.sell_put, "placed", FALSE)

\* C19: when a rollover has exited the expiring contract and entered the next
\* one, every system that held a position in the expiring contract holds
\* one in the new contract, and no position in the registry is in the
\* expired contract.
C19_RolledPositionRecorded ==
    \A t \in Threads :
       JustRolled(t) =>
          LET from == rollover_results[t].from_contract
              to == rollover_results[t].to_contract
          IN  /\ \A id \in DOMAIN SYSTEM_POSITIONS :
                    SYSTEM_POSITIONS[id].contract.name # from
              /\ \A id \in DOMAIN pre[t] :
                    pre[t][id].contract.name = from =>
                       /\ id \in DOMAIN SYSTEM_POSITIONS
                       /\ SYSTEM_POSITIONS[id].contract.name = to

\* The rollover run for the request of thread t has just returned: the old
\* contract was exited and the entry into the new one failed.
EnterFailedAfterExit(t) ==
    /\ pc[t] = "dispatch"
    /\ Get(rollover_results[t], "reason", "None") = "enter_new_failed_after_exit"

\* C20: when a rollover has exited the old contract and failed to enter the
\* new one, no position in the exited contract is left in the registry, and
\* the entry was tried once.
C20_FailedReentryRemovesPosition ==
    \A t \in Threads :
       EnterFailedAfterExit(t) =>
          /\ \A id \in DOMAIN SYSTEM_POSITIONS :
                SYSTEM_POSITIONS[id].contract.name #
                   rollover_results[t].exit_result.contract
          /\ Cardinality({ i \in DOMAIN calls[t] :
                             calls[t][i].op = "enter" /\ calls[t][i].side = "BUY" }) = 1

\* The margin check of the call was asked for a verdict: it is switched on
\* and the book gave a price (the ask for a BUY, the bid for a SELL).
MarginGateAsked ==
    /\ probe.margin_check_enabled
    /\ LiquidityPasses(probe.out.checks)
    /\ LET info == probe.out.checks[Len(probe.out.checks)].info
       IN  IF probe.side = "BUY" THEN info.ask_price > 0 ELSE info.bid_price > 0

\* C21: in every call of place_order_with_checks an order goes to POST
\* /orders only when the last liquidity check accepted and, where the margin
\* check is switched on and a price is known, the margin check accepted; a
\* refusal by either gives placed = false and no order.
C21_OrderOnlyAfterGates ==
    (probe.fn = "place_order_with_checks" /\ probe.applied) =>
       LET out == probe.out
           liquidity_ok == out.checks[Len(out.checks)].ok
           margin_refused == MarginGateAsked
                               /\ ~MarginCheck(TRUE, probe.env.margin).ok
       IN  /\ out.posted # <<>> => (liquidity_ok /\ ~margin_refused)
           /\ (~liquidity_ok \/ margin_refused) =>
                 /\ ~out.raised
                 /\ out.result.placed = FALSE
                 /\ out.posted = <<>>

\* The margin check refused an order the liquidity check had let through.
C21_Witness ==
    /\ probe.fn = "place_order_with_checks"
    /\ probe.applied
    /\ MarginGateAsked
    /\ probe.env.margin = MarginReply("ok", 200, 100, 100)
    /\ probe.out.result.placed = FALSE
    /\ probe.out.result.liquidity_ok
    /\ ~probe.out.result.margin_ok
    /\ probe.out.posted = <<>>

\* C22: the two orders of one entry carry the same quantity, and the
\* orders of one exit carry the same quantity, which is the quantity of a
\* position the registry holds in the contract being closed.
C22_LegsShareQuantity ==
    \A t \in Threads : \A i \in DOMAIN calls[t] :
       LET c == calls[t][i]
       IN  /\ \A k \in DOMAIN calls[t] :
                (calls[t][k].op = c.op /\ calls[t][k].ctx = c.ctx) =>
                   calls[t][k].qty = c.qty
           /\ c.op = "exit" =>
                \E id \in DOMAIN pre[t] :
                   /\ pre[t][id].contract.name = c.security_id.expiry
                   /\ pre[t][id].qty = c.qty

\* C23: check_margin accepts whatever it is given when the check is switched
\* off; switched on and answered by the calculator (HTTP 200, amounts read),
\* it accepts exactly when availableBalance >= totalMargin and
\* insufficientBalance <= 0.
C23_MarginAcceptsIffCovered ==
    (probe.fn = "check_margin" /\ probe.applied) =>
       /\ ~probe.enabled => probe.out.ok
       /\ (probe.enabled /\ probe.reply.kind = "ok") =>
             (probe.out.ok <=>
                (probe.reply.availableBalance >= probe.reply.totalMargin
                   /\ probe.reply.insufficientBalance <= 0))

\* The balance covers the margin, the calculator reports a shortfall all the
\* same, and the check refuses.
C23_Witness ==
    /\ probe.fn = "check_margin"
    /\ probe.applied
    /\ probe.enabled
    /\ probe.reply = MarginReply("ok", 100, 200, 50)
    /\ ~probe.out.ok

\* The margin calculator could not be asked, or answered something that
\* cannot be read.
MarginQueryFailed == probe.env.margin.kind \in {"exception", "unparseable"}

\* C24: with the margin check switched on, a query to the calculator that
\* fails (the request raises, or the answer cannot be parsed) counts as an
\* acceptance: the check returns ok and the order goes to POST /orders.
C24_MarginFailsOpen ==
    (probe.fn = "place_order_with_checks" /\ probe.applied
       /\ MarginGateAsked /\ MarginQueryFailed) =>
       /\ Len(probe.out.margins) = 1
       /\ probe.out.margins[1].ok
       /\ probe.out.posted # <<>>
       /\ ~probe.out.raised => Get(probe.out.result, "margin_ok", FALSE)

C24_Witness ==
    /\ probe.fn = "place_order_with_checks"
    /\ probe.applied
    /\ MarginGateAsked
    /\ probe.env.margin.kind = "unparseable"
    /\ probe.out.margins = <<[ok |-> TRUE, info |-> "error"]>>
    /\ probe.out.result.placed

\* POST /orders failed: the request raised (timeout, network error) or the
\* broker answered with a status other than 200 and 201.
SubmissionFailed ==
    probe.env.post.raises \/ probe.env.post.status_code \notin {200, 201}

\* C25: when the order reaches POST /orders and the submission fails,
\* place_order_with_checks returns a result with placed = false and lets no
\* exception out.
C25_FailedSubmissionReturned ==
    (probe.fn = "place_order_with_checks" /\ probe.applied
       /\ probe.out.posted # <<>> /\ SubmissionFailed) =>
       /\ ~probe.out.raised
       /\ probe.out.result.placed = FALSE

\* The broker holds something in the instrument.
BrokerExposed(security_id) ==
    \E q \in probe.positions : q.securityId = security_id /\ q.netQty # 0

\* C26: an exit sends a closing order to the broker only for a leg in which
\* the broker holds something.
C26_NoClosingOrderWithoutExposure ==
    probe.fn = "get_positions" =>
       \A t \in Threads : \A i \in DOMAIN calls[t] :
          (calls[t][i].op = "exit" /\ calls[t][i].posted) =>
             BrokerExposed(calls[t][i].security_id)

\* The BUY request of thread t recorded a position whose SELL PUT never
\* went to the broker: the short leg was not opened.
RecordedWithoutShortLeg(t) ==
    /\ req[t].signal = "BUY"
    /\ Get(frame[t].enter_res, "entered", FALSE)
    /\ \E i \in DOMAIN calls[t] :
          /\ calls[t][i].op = "enter" /\ calls[t][i].side = "SELL"
          /\ ~calls[t][i].posted

\* C27: the exit of a position whose short leg was never opened sends no BUY
\* on the put.
C27_NoPutCloseWithoutShortLeg ==
    \A t, u \in Threads :
       (RecordedWithoutShortLeg(t) /\ req[u].signal \in {"SELL", "EXIT"}
          /\ req[u].system_id = req[t].system_id) =>
          \A i \in DOMAIN calls[u] :
             ~(calls[u][i].op = "exit" /\ calls[u][i].side = "BUY"
                 /\ calls[u][i].security_id.opt = "PE" /\ calls[u][i].posted)

\* The request thread t handles fails validation: its signal is none of
\* BUY, SELL, EXIT and CHECK, or it is a trade signal without a system id.
FailsValidation(t) ==
    /\ req[t].signal \in Signals
    /\ \/ req[t].signal \notin {"BUY", "SELL", "EXIT", "CHECK"}
       \/ req[t].signal \in {"BUY", "SELL", "EXIT"} /\ req[t].system_id = ""

\* C28: while a request that fails validation is handled, at whatever time
\* and whatever the broker holds, no order goes to the broker and the
\* registry stays as it was.
C28_InvalidRequestDoesNothing ==
    \A t \in Threads :
       FailsValidation(t) =>
          /\ \A i \in DOMAIN calls[t] : ~calls[t][i].posted
          /\ SYSTEM_POSITIONS = pre[t]

\* C29, as stated, its conclusion: every run of enter_synthetic_long,
\* exit_synthetic_long and rollover_synthetic_if_needed that has submitted
\* an order has returned a result to its caller when the request is
\* answered.
C29_RunsReturnResult ==
    \A t \in Threads :
       pc[t] = "done" =>
          \A i \in DOMAIN calls[t] :
             LET c == calls[t][i]
             IN  /\ c.ctx = "rollover" => rollover_results[t] # NotRun
                 /\ (c.ctx = "signal" /\ c.op = "enter") =>
                       frame[t].enter_res # NoReturn
                 /\ (c.ctx = "signal" /\ c.op = "exit") =>
                       frame[t].exit_res # NoReturn

\* The first part of C29: every call of wait_for_fill returns, whatever
\* get_order answers:
\* at a final status, or when the wait has lasted ORDER_FILL_MAX_WAIT, also
\* when no query succeeds and when the order never reaches a final status.
C29_WaitForFillReturns ==
    (probe.fn = "wait_for_fill") ~> probe.returned

\* No query was answered and the wait ran out.
C29_Witness ==
    /\ probe.fn = "wait_for_fill"
    /\ probe.returned
    /\ ~probe.filled
    /\ probe.last_status = NoStatus
    /\ probe.elapsed >= ORDER_FILL_MAX_WAIT

\* The state file holds a JSON object: it exists and can be read and parsed.
HoldsRegistry(file) ==
    /\ DOMAIN file \subseteq {"s1", "s2"}
    /\ \A id \in DOMAIN file : DOMAIN file[id] = {"contract", "qty"}

\* C30: once the server has started, the registry in memory is what the
\* state file holds, and is empty when there is no file or the file cannot
\* be read or parsed; the server has started in either case.
C30_StartupLoadsCommittedState ==
    (probe.fn = "load_system_positions" /\ probe.applied) =>
       /\ SYSTEM_POSITIONS = IF HoldsRegistry(STATE_FILE) THEN STATE_FILE
                              ELSE EmptyDict
       /\ pc["t1"] = "idle"

\* The server started on a file that was cut short.
C30_Witness ==
    /\ probe.fn = "load_system_positions"
    /\ probe.applied
    /\ STATE_FILE = Corrupt
    /\ SYSTEM_POSITIONS = EmptyDict
    /\ pc["t1"] = "idle"

\* C31: when the requests for the two systems have both been handled, the
\* state file holds exactly the registry that is in memory.
C31_StateFileHoldsEveryPosition ==
    (\A t \in Threads : pc[t] = "done") => STATE_FILE = SYSTEM_POSITIONS

\* The request of thread t had both closing orders placed: the BUY on the
\* put and the SELL on the call.
ClosingPairPlaced(t) ==
    /\ req[t].signal \in {"SELL", "EXIT"}
    /\ \E i \in DOMAIN calls[t] :
          /\ calls[t][i].side = "BUY" /\ calls[t][i].op = "exit"
          /\ calls[t][i].ctx = "signal"
          /\ Get(calls[t][i].result, "placed", FALSE)
    /\ \E i \in DOMAIN calls[t] :
          /\ calls[t][i].side = "SELL" /\ calls[t][i].op = "exit"
          /\ calls[t][i].ctx = "signal"
          /\ Get(calls[t][i].result, "placed", FALSE)

\* C32: of two SELL or EXIT requests for the position of one system, at
\* most one has the closing orders placed, and the request that placed them
\* is answered without an error.
C32_PositionClosedOnce ==
    /\ ~(\A t \in Threads : ClosingPairPlaced(t))
    /\ \A t \in Threads :
          (pc[t] = "done" /\ ClosingPairPlaced(t)) => resp[t].code = 200

\* The calendar date at UTC+5:30.
IstDate(instant) == (instant + IST_OFFSET) \div MINUTES_PER_DAY

\* C33: whenever the time gate of the rollover passes, the date the handler
\* took as today is the date at UTC+5:30.
C33_TodayIsIstDateWhenGatePasses ==
    (probe.fn = "rollover_gate" /\ probe.applied /\ probe.gate_passed) =>
       probe.today = IstDate(probe.now_utc)

\* The gate passed in the last minute of a day at UTC+5:30 (18:29 UTC), on
\* a day after day 0.
C33_Witness ==
    /\ probe.fn = "rollover_gate"
    /\ probe.applied
    /\ probe.gate_passed
    /\ IstTimeOfDay(UtcTimeOfDay(probe.now_utc)) = MINUTES_PER_DAY - 1
    /\ probe.today = 1
    /\ IstDate(probe.now_utc) = 1

====
